---- MODULE Spec2Model ----
(***************************************************************************)
(* Model of the EDISU Mensa bot: the Instagram menu-extraction pipeline    *)
(* (src/src/instapi.py), the host application that caches the table and    *)
(* retries the fetch (src/src/app.py), and the threads that call into it    *)
(* (scheduler, console, Telegram bot).                                      *)
(*                                                                          *)
(* Strings are modelled by what the code asks of them:                      *)
(*   - a menu string (a cell of the table) is a record whose kind tells     *)
(*     which literal or f-string of the source built it;                    *)
(*   - an OCR text is a sequence of non-empty lines, a line being the set   *)
(*     of keywords it contains (k in line.lower()) and its length.          *)
(***************************************************************************)
EXTENDS Integers, Sequences, FiniteSets, TLC

(***************************************************************************)
(* Bounds of the exploration.                                               *)
(***************************************************************************)
\* fetch_daily_menus calls started over the explored prefix of a run
MaxCycles == 3
\* stories returned by one story listing
MaxStories == 2
\* operations the threads have in progress at the same time
MaxOverlap == 2

\* the wrappers a run may leave on public_request
MaxWrappers == 2

\* the times the clock moves on between calls of the OCR
MaxClockAdvances == 1

\* lines of an OCR text given to the text functions
MaxLines == 4

(***************************************************************************)
(* Program constants.                                                       *)
(***************************************************************************)
max_login_attempts == 3
login_backoff == 5
max_retries == 3
fdm_max_retries == 3

cafeterias == <<"Principe Amedeo", "Castelfidardo", "Paolo Borsellino", "Perrone">>

Cafeterias == {cafeterias[i] : i \in 1..Len(cafeterias)}

MealTypes == {"pranzo", "cena"}

LegacyNames == {"Central", "Sobrero", "Corso Duca"}

name_mapping ==
  [l \in LegacyNames |->
     CASE l = "Central" -> "Principe Amedeo"
       [] l = "Sobrero" -> "Paolo Borsellino"
       [] l = "Corso Duca" -> "Perrone"]

\* cafeteria_keywords, in dict insertion order; each list in list order
cafeteria_keywords ==
  [c \in Cafeterias |->
     CASE c = "Principe Amedeo" -> <<"principe amedeo", "central", "centro", "via principe">>
       [] c = "Castelfidardo" -> <<"castelfidardo", "castel", "politecnico", "politecnico castelfidardo">>
       [] c = "Paolo Borsellino" -> <<"borsellino", "sobrero", "paolo borsellino">>
       [] c = "Perrone" -> <<"perrone", "novara", "corso duca", "corso">>]

\* meal_keywords, in dict insertion order
meal_order == <<"pranzo", "cena">>

meal_keywords ==
  [m \in MealTypes |->
     IF m = "pranzo" THEN {"pranzo", "lunch", "mezzogiorno"}
                     ELSE {"cena", "dinner", "sera"}]

section_order == <<"primi", "secondi", "contorni", "dessert">>

section_headers ==
  [s \in {"primi", "secondi", "contorni", "dessert"} |->
     CASE s = "primi" -> {"primi piatti", "primi", "primo piatto", "primo"}
       [] s = "secondi" -> {"secondi piatti", "secondi", "secondo piatto", "secondo"}
       [] s = "contorni" -> {"contorni", "contorno"}
       [] s = "dessert" -> {"dessert", "dolci", "frutta", "dolce"}]

(***************************************************************************)
(* Menu strings.                                                            *)
(***************************************************************************)
\* "Menu pranzo not available" / "Menu cena not available"
NotAvailable(meal) == [kind |-> "not_available", meal |-> meal]

\* ""
EmptyString == [kind |-> "empty"]

\* "No menu posted today"
NoMenuPosted == [kind |-> "no_menu_posted"]

\* f"Error fetching {meal} menu: {str(e)}"
ErrorString(meal, msg) == [kind |-> "error", meal |-> meal, msg |-> msg]

\* "Menu not available for this cafeteria/meal"
LookupDefault == [kind |-> "lookup_default"]

\* _generate_placeholder_menu(cafeteria, meal_type, reason)
GeneratePlaceholderMenu(cafeteria, meal_type, reason) ==
  [kind |-> "placeholder", cafeteria |-> cafeteria, meal |-> meal_type,
   reason |-> reason]

LoginFailedReason == "Instagram login failed. Using placeholder menu."

\* bool(s): a string is falsy exactly when it is empty
Truthy(s) == s.kind # "empty"

\* "not available" in s
HasNotAvailable(s) == s.kind \in {"not_available", "lookup_default"}

\* "Error" in s
HasError(s) == s.kind = "error"

(***************************************************************************)
(* OCR text: a sequence of non-empty stripped lines.  line.kw is the set of *)
(* keywords k with `k in line.lower()`; line.len is len(line).  A text is   *)
(* falsy exactly when it is the empty sequence.                             *)
(***************************************************************************)
LineHas(line, k) == k \in line.kw

\* k in text.lower()
TextHas(text, k) == \E i \in 1..Len(text) : LineHas(text[i], k)

\* any(k in line for k in seq)
LineHasAny(line, seq) == \E j \in 1..Len(seq) : LineHas(line, seq[j])

TextHasAny(text, seq) == \E i \in 1..Len(text) : LineHasAny(text[i], seq)

\* smallest index of seq whose element is one of hits, 0 when there is none
FirstIndex(seq, hits) ==
  IF \E i \in 1..Len(seq) : seq[i] \in hits
    THEN CHOOSE i \in 1..Len(seq) :
           seq[i] \in hits /\ \A j \in 1..(i - 1) : seq[j] \notin hits
    ELSE 0

Min(a, b) == IF a < b THEN a ELSE b

None == "None"

\* an identification that goes by the aliases of the whole text only
IdentifyCafeteriaWholeText(text, existing_menus) ==
  IF Len(text) = 0 THEN None
  ELSE
    LET InText(c) == TextHasAny(text, cafeteria_keywords[c])
        a == FirstIndex(cafeterias, {c \in Cafeterias : InText(c)})
    IN IF a # 0 THEN cafeterias[a] ELSE None

\* _identify_cafeteria_from_text(text, existing_menus); existing_menus is
\* the set of keys of the accumulator
IdentifyCafeteriaFromText(text, existing_menus) ==
  IF Len(text) = 0 THEN None
  ELSE
    LET first3 == SubSeq(text, 1, Min(3, Len(text)))
        HeaderHit(line) ==
          LineHas(line, "mensa") /\
          \E c \in Cafeterias : LineHasAny(line, cafeteria_keywords[c])
        h == FirstIndex(first3, {first3[i] : i \in {j \in 1..Len(first3) : HeaderHit(first3[j])}})
        InLine(c) == LineHasAny(first3[h], cafeteria_keywords[c])
        InText(c) == TextHasAny(text, cafeteria_keywords[c])
        a == FirstIndex(cafeterias, {c \in Cafeterias : InText(c)})
        menu_indicators == {"primi piatti", "secondi piatti", "contorni",
                            "menu_accented", "pranzo", "cena"}
        NotYet(c) == c \notin existing_menus
        f == FirstIndex(cafeterias, {c \in Cafeterias : NotYet(c)})
    IN IF h # 0 THEN cafeterias[FirstIndex(cafeterias, {c \in Cafeterias : InLine(c)})]
       ELSE IF a # 0 THEN cafeterias[a]
       ELSE IF (\E k \in menu_indicators : TextHas(text, k)) /\ f # 0
              THEN cafeterias[f]
       ELSE None

\* a meal test that looks for the cena keywords first
IdentifyMealTypeCenaFirst(text) ==
  IF \E k \in {"cena", "dinner", "sera"} : TextHas(text, k) THEN "cena" ELSE "pranzo"

\* _identify_meal_type(text)
IdentifyMealType(text) ==
  LET Hit(m) == \E k \in meal_keywords[m] : TextHas(text, k)
      i == FirstIndex(meal_order, {m \in MealTypes : Hit(m)})
  IN IF i # 0 THEN meal_order[i] ELSE "pranzo"

(***************************************************************************)
(* Formatted menu: the list result_lines of _process_menu_text, each entry  *)
(* with the length of the rendered line; the string is their "\n".join.     *)
(***************************************************************************)
SectionNameLen(s) ==
  CASE s = "primi" -> 5 [] s = "secondi" -> 7 [] s = "contorni" -> 8
    [] s = "dessert" -> 7

DateLine == [t |-> "date", section |-> "-", len |-> 12, src |-> 0]
BlankLine == [t |-> "blank", section |-> "-", len |-> 0, src |-> 0]
\* f"{emoji} *{section.upper()}* {emoji}"
HeaderLine(s) == [t |-> "header", section |-> s, len |-> SectionNameLen(s) + 6, src |-> 0]
\* f"<bullet> {dish_text}"; src is the index of the source line
DishLine(s, text, i) ==
  [t |-> "dish", section |-> s, len |-> text[i].len + 2, src |-> i, text |-> text[i].kw]
\* "<bullet> Frutta fresca", "<bullet> Dessert del giorno"
FruttaLine == [t |-> "fixed", section |-> "dessert", len |-> 15, src |-> 0]
DessertLine == [t |-> "fixed", section |-> "dessert", len |-> 20, src |-> 0]

Boilerplate == {"mensa", "menu_accented", "menu", "data", "edisu", "piemonte"}

\* the section whose header keywords the line matches, first in dict order
HeaderOf(line) ==
  LET Hit(s) == \E k \in section_headers[s] : LineHas(line, k)
      i == FirstIndex(section_order, {x \in DOMAIN section_headers : Hit(x)})
  IN IF i # 0 THEN section_order[i] ELSE None

\* a loop that looks for a section header before it looks for boilerplate
RECURSIVE CurrentSectionHeaderFirst(_, _)
CurrentSectionHeaderFirst(text, n) ==
  IF n = 0 THEN None
  ELSE IF HeaderOf(text[n]) # None THEN HeaderOf(text[n])
  ELSE CurrentSectionHeaderFirst(text, n - 1)

\* current_section after the first n lines (the loop of lines 664-684)
RECURSIVE CurrentSection(_, _)
CurrentSection(text, n) ==
  IF n = 0 THEN None
  ELSE IF \E k \in Boilerplate : LineHas(text[n], k) THEN CurrentSection(text, n - 1)
  ELSE IF HeaderOf(text[n]) # None THEN HeaderOf(text[n])
  ELSE CurrentSection(text, n - 1)

\* line n is appended to sections_data[s]
IsDishOf(text, n, s) ==
  /\ ~(\E k \in Boilerplate : LineHas(text[n], k))
  /\ HeaderOf(text[n]) = None
  /\ CurrentSection(text, n - 1) = s
  /\ s \in {"primi", "secondi", "contorni"}
  /\ text[n].len > 3

\* sections_data[s], as the source line indices in order
RECURSIVE DishesUpTo(_, _, _)
DishesUpTo(text, s, n) ==
  IF n = 0 THEN << >>
  ELSE IF IsDishOf(text, n, s) THEN Append(DishesUpTo(text, s, n - 1), n)
  ELSE DishesUpTo(text, s, n - 1)

\* a block that puts the header of a section out even when it has no dish
SectionBlockEvenIfEmpty(text, s) ==
  LET d == DishesUpTo(text, s, Len(text))
  IN <<HeaderLine(s)>> \o [k \in 1..Len(d) |-> DishLine(s, text, d[k])] \o <<BlankLine>>

SectionBlock(text, s) ==
  LET d == DishesUpTo(text, s, Len(text))
  IN IF Len(d) = 0 THEN << >>
     ELSE <<HeaderLine(s)>> \o [k \in 1..Len(d) |-> DishLine(s, text, d[k])] \o <<BlankLine>>

\* a formatter that adds the dessert block only after some other section
ProcessMenuTextDessertAfterDishes(text, cafeteria, meal_type) ==
  LET blocks == SectionBlock(text, "primi") \o SectionBlock(text, "secondi")
                \o SectionBlock(text, "contorni")
  IN [kind |-> "menu",
      lines |-> <<DateLine, BlankLine>> \o blocks
                \o (IF Len(blocks) = 0 THEN << >>
                    ELSE <<HeaderLine("dessert"), FruttaLine, DessertLine>>)]

\* _process_menu_text(text, cafeteria, meal_type)
ProcessMenuText(text, cafeteria, meal_type) ==
  [kind |-> "menu",
   lines |-> <<DateLine, BlankLine>>
             \o SectionBlock(text, "primi") \o SectionBlock(text, "secondi")
             \o SectionBlock(text, "contorni")
             \o <<HeaderLine("dessert"), FruttaLine, DessertLine>>]

RECURSIVE SumLen(_, _)
SumLen(ls, n) == IF n = 0 THEN 0 ELSE ls[n].len + SumLen(ls, n - 1)

\* len(s) of a menu string built by _process_menu_text; 0 for ""
StrLen(s) ==
  IF s.kind = "empty" THEN 0
  ELSE SumLen(s.lines, Len(s.lines)) + Len(s.lines) - 1

(***************************************************************************)
(* Stories.  story.date is what lines 466-479 compute from the story's      *)
(* attributes: "today", "yesterday", "older", "unknown" (None), or "raises" *)
(* when reading the attribute throws (datetime.fromtimestamp of a value     *)
(* that is not a timestamp).  story.text is what the OCR run yields for the *)
(* image, << >> when the download or the OCR fails.                         *)
(***************************************************************************)
\* the message of the exception a malformed story date raises
DateErrorMsg == "an integer is required"

\* a rendering of today's date (today_str_formats) / a date token whose day
\* and month are today's (date_patterns), as keywords of a line
TodayFormat == "date:today_format"
TodayToken == "date:today_token"

\* a token of date_patterns with today's day and then a word that is no
\* month but a piece of today's month name ("5 a" on the 5th of marzo):
\* `month_part in month.lower()` at line 527 is true for it
TodayFragment == "date:today_day_and_piece_of_month"

\* the test of lines 499-529 on the text: has_today_date
HasTodayDate(text) ==
  TextHas(text, TodayFormat) \/ TextHas(text, TodayToken) \/ TextHas(text, TodayFragment)

\* _extract_text_from_story(story): "" when Tesseract is missing or anything
\* fails, else the OCR text
ExtractTextFromStory(story, tesseract) ==
  IF ~tesseract THEN << >> ELSE story.text

\* a test that looks for today's date only
KeepYesterdayDateOnly(story, tesseract) ==
  LET preview_text == ExtractTextFromStory(story, tesseract)
  IN HasTodayDate(preview_text)

\* the test of lines 490-537 on a story dated yesterday
KeepYesterday(story, tesseract) ==
  LET preview_text == ExtractTextFromStory(story, tesseract)
      has_menu == Len(preview_text) > 0 /\
                  \E k \in {"menu_accented", "menu", "primo", "pranzo", "cena", "mensa"} :
                     TextHas(preview_text, k)
  IN has_menu /\ HasTodayDate(preview_text)

\* a filter that keeps a story of today only when its image can be read
RECURSIVE FilterUpToReadable(_, _, _)
FilterUpToReadable(stories, n, tesseract) ==
  IF n = 0 THEN [raised |-> FALSE, kept |-> << >>]
  ELSE LET r == FilterUpToReadable(stories, n - 1, tesseract)
           story == stories[n]
       IN IF r.raised THEN r
          ELSE IF story.date = "raises" THEN [raised |-> TRUE, kept |-> r.kept]
          ELSE IF story.date = "unknown"
                 THEN [raised |-> FALSE, kept |-> Append(r.kept, story)]
          ELSE IF story.date = "today" /\ Len(ExtractTextFromStory(story, tesseract)) > 0
                 THEN [raised |-> FALSE, kept |-> Append(r.kept, story)]
          ELSE IF story.date = "yesterday" /\ KeepYesterday(story, tesseract)
                 THEN [raised |-> FALSE, kept |-> Append(r.kept, story)]
          ELSE r

\* _filter_current_day_stories(stories) over the first n stories:
\* [raised, kept]; the first story whose date cannot be read aborts the loop
RECURSIVE FilterUpTo(_, _, _)
FilterUpTo(stories, n, tesseract) ==
  IF n = 0 THEN [raised |-> FALSE, kept |-> << >>]
  ELSE LET r == FilterUpTo(stories, n - 1, tesseract)
           story == stories[n]
       IN IF r.raised THEN r
          ELSE IF story.date = "raises" THEN [raised |-> TRUE, kept |-> r.kept]
          ELSE IF story.date \in {"unknown", "today"}
                 THEN [raised |-> FALSE, kept |-> Append(r.kept, story)]
          ELSE IF story.date = "yesterday" /\ KeepYesterday(story, tesseract)
                 THEN [raised |-> FALSE, kept |-> Append(r.kept, story)]
          ELSE r

FilterCurrentDayStories(stories, tesseract) == FilterUpTo(stories, Len(stories), tesseract)

\* an accumulator that prepares the pranzo key only
ExtractedInitPranzoOnly == [c \in Cafeterias |-> [m \in {"pranzo"} |-> EmptyString]]

\* the accumulator of _extract_menus_from_stories at lines 385-391
ExtractedInit == [c \in Cafeterias |-> [m \in MealTypes |-> EmptyString]]

\* a merge that lets a later text of the same length win
MergeCellLatest(old, menu_text) ==
  IF Truthy(old)
    THEN IF StrLen(menu_text) >= StrLen(old) THEN menu_text ELSE old
    ELSE menu_text

\* lines 419-426: keep the longer text, the earlier one on a tie
MergeCell(old, menu_text) ==
  IF Truthy(old)
    THEN IF StrLen(menu_text) > StrLen(old) THEN menu_text ELSE old
    ELSE menu_text

\* the loops of lines 397-426 over the first n current stories
RECURSIVE ExtractUpTo(_, _, _)
ExtractUpTo(current, n, tesseract) ==
  IF n = 0 THEN ExtractedInit
  ELSE LET acc == ExtractUpTo(current, n - 1, tesseract)
           ocr_text == ExtractTextFromStory(current[n], tesseract)
           cafeteria == IdentifyCafeteriaFromText(ocr_text, DOMAIN acc)
           meal_type == IdentifyMealType(ocr_text)
           menu_text == ProcessMenuText(ocr_text, cafeteria, meal_type)
       IN IF Len(ocr_text) = 0 \/ cafeteria = None THEN acc
          ELSE [acc EXCEPT ![cafeteria][meal_type] = MergeCell(@, menu_text)]

\* _extract_menus_from_stories(stories): [raised, table]
ExtractMenusFromStories(stories, tesseract) ==
  LET f == FilterCurrentDayStories(stories, tesseract)
  IN IF f.raised THEN [raised |-> TRUE, table |-> ExtractedInit]
     ELSE [raised |-> FALSE, table |-> ExtractUpTo(f.kept, Len(f.kept), tesseract)]

(***************************************************************************)
(* Menu tables: dict cafeteria -> dict meal -> string.  {} is the function  *)
(* with the empty domain.                                                   *)
(***************************************************************************)
EmptyTable == [c \in {} |-> [m \in MealTypes |-> EmptyString]]

\* lines 181-187
InitialTable == [c \in Cafeterias |-> [m \in MealTypes |-> NotAvailable(m)]]

\* lines 192-194, 204-206, 261-263 and app.py 104-108
PlaceholderTable(reason) ==
  [c \in Cafeterias |-> [m \in MealTypes |-> GeneratePlaceholderMenu(c, m, reason)]]

\* a no-stories branch that answers with placeholder menus
NoMenuTablePlaceholders ==
  [c \in Cafeterias |-> [m \in MealTypes |-> GeneratePlaceholderMenu(c, m, "")]]

\* lines 267-269
NoMenuTable == [c \in Cafeterias |-> [m \in MealTypes |-> NoMenuPosted]]

\* an error table that drops the exception's message
ErrorTableNoMessage(msg) == [c \in Cafeterias |-> [m \in MealTypes |-> ErrorString(m, "")]]

\* lines 272-276
ErrorTable(msg) == [c \in Cafeterias |-> [m \in MealTypes |-> ErrorString(m, msg)]]

\* lines 243-246
MergeExtracted(menus_, extracted_menus) ==
  [c \in DOMAIN menus_ |->
     IF c \in DOMAIN extracted_menus THEN extracted_menus[c] ELSE menus_[c]]

\* lines 248-258
FillMissing(menus_) ==
  LET missing_cafeterias ==
        {c \in Cafeterias : menus_[c]["pranzo"] = NotAvailable("pranzo")
                            /\ menus_[c]["cena"] = NotAvailable("cena")}
  IN [c \in DOMAIN menus_ |->
        IF c \in missing_cafeterias
          THEN [m \in MealTypes |-> GeneratePlaceholderMenu(c, m, "")]
          ELSE menus_[c]]

(***************************************************************************)
(* The retrying helpers.  An outcome sequence gives, per attempt, what the  *)
(* client call does.                                                        *)
(***************************************************************************)
LiveUserId == "live"
HardcodedUserId == "44062439959"

\* _get_user_id_with_retry(username) for username = cafeteria_account:
\* outcomes[i] in {"ok", "falsy", "json_error", "error"};
\* result [user_id, cached, calls, sleeps]
RECURSIVE UserIdFrom(_, _, _, _)
UserIdFrom(outcomes, attempt, cached, sleeps) ==
  IF attempt > max_retries
    THEN [user_id |-> cached, cached |-> cached, calls |-> max_retries, sleeps |-> sleeps]
  ELSE LET o == outcomes[attempt]
           delay == 2 * (2 ^ (attempt - 1))
       IN CASE o = "ok" ->
                 [user_id |-> LiveUserId, cached |-> LiveUserId, calls |-> attempt,
                  sleeps |-> sleeps]
            [] o = "falsy" -> UserIdFrom(outcomes, attempt + 1, cached, sleeps)
            [] o = "json_error" ->
                 IF attempt < max_retries
                   THEN UserIdFrom(outcomes, attempt + 1, cached, Append(sleeps, delay))
                   ELSE [user_id |-> HardcodedUserId, cached |-> HardcodedUserId,
                         calls |-> attempt, sleeps |-> sleeps]
            [] o = "error" ->
                 IF attempt < max_retries
                   THEN UserIdFrom(outcomes, attempt + 1, cached, Append(sleeps, delay))
                   ELSE UserIdFrom(outcomes, attempt + 1, cached, sleeps)

GetUserIdWithRetry(cached, outcomes) ==
  IF cached # None
    THEN [user_id |-> cached, cached |-> cached, calls |-> 0, sleeps |-> << >>]
    ELSE UserIdFrom(outcomes, 1, cached, << >>)

\* _get_stories_with_retry(user_id): outcomes[i] in {"ok", "json_error",
\* "error"}; direct in {"reel", "no_reel", "raises"} is what the direct call
\* of line 343 does; listed / items are the stories either call returns;
\* result [stories, calls, direct_calls, sleeps]
RECURSIVE StoriesFrom(_, _, _, _, _, _)
StoriesFrom(outcomes, attempt, direct, listed, items, sleeps) ==
  IF attempt > max_retries
    THEN [stories |-> << >>, calls |-> max_retries, direct_calls |-> 0, sleeps |-> sleeps]
  ELSE LET o == outcomes[attempt]
           delay == 2 * (2 ^ (attempt - 1))
       IN CASE o = "ok" ->
                 [stories |-> listed, calls |-> attempt, direct_calls |-> 0,
                  sleeps |-> sleeps]
            [] o = "json_error" ->
                 IF attempt < max_retries
                   THEN StoriesFrom(outcomes, attempt + 1, direct, listed, items,
                                    Append(sleeps, delay))
                   ELSE [stories |-> IF direct = "reel" THEN items ELSE << >>,
                         calls |-> attempt, direct_calls |-> 1, sleeps |-> sleeps]
            [] o = "error" ->
                 StoriesFrom(outcomes, attempt + 1, direct, listed, items,
                             IF attempt < max_retries THEN Append(sleeps, delay)
                                                      ELSE sleeps)

GetStoriesWithRetry(outcomes, direct, listed, items) ==
  StoriesFrom(outcomes, 1, direct, listed, items, << >>)

\* a tail that asks for tesseract before it looks at the stories
FetchMenusTailOcrFirst(user_id, stories, tesseract) ==
  IF user_id = None THEN [table |-> InitialTable, path |-> "no_user_id"]
  ELSE IF ~tesseract THEN [table |-> PlaceholderTable(""), path |-> "no_ocr"]
  ELSE IF Len(stories) = 0 THEN [table |-> NoMenuTable, path |-> "no_stories"]
  ELSE LET e == ExtractMenusFromStories(stories, tesseract)
       IN IF e.raised
            THEN [table |-> ErrorTable(DateErrorMsg), path |-> "exception"]
            ELSE [table |-> FillMissing(MergeExtracted(InitialTable, e.table)),
                  path |-> "extracted"]

\* lines 225-276 of fetch_menus, from the results of the helpers:
\* [table, path]
FetchMenusTail(user_id, stories, tesseract) ==
  IF user_id = None THEN [table |-> InitialTable, path |-> "no_user_id"]
  ELSE IF Len(stories) = 0 THEN [table |-> NoMenuTable, path |-> "no_stories"]
  ELSE IF ~tesseract THEN [table |-> PlaceholderTable(""), path |-> "no_ocr"]
  ELSE LET e == ExtractMenusFromStories(stories, tesseract)
       IN IF e.raised
            THEN [table |-> ErrorTable(DateErrorMsg), path |-> "exception"]
            ELSE [table |-> FillMissing(MergeExtracted(InitialTable, e.table)),
                  path |-> "extracted"]

\* the generator of lines 77-78 of fetch_daily_menus
MenuCount(menus_) ==
  Cardinality({cm \in (DOMAIN menus_) \X MealTypes :
                 LET meal == menus_[cm[1]][cm[2]]
                 IN Truthy(meal) /\ ~HasNotAvailable(meal) /\ ~HasError(meal)})

(***************************************************************************)
(* What the outside world can do in one fetch cycle.                        *)
(***************************************************************************)
Line(kw, len) == [kw |-> kw, len |-> len]

MensaCastelfidardo == Line({"mensa", "castelfidardo", "castel"}, 19)
PrimiPiatti == Line({"primi piatti", "primi"}, 12)
PastaAlPomodoro == Line({}, 17)
MensaPerroneCenaToday ==
  Line({"mensa", "perrone", "cena", TodayFormat, TodayToken}, 29)
MensaPrincipeAmedeo == Line({"mensa", "principe amedeo"}, 21)

Story(id, date, text) == [id |-> id, date |-> date, text |-> text]

\* taken today; taken yesterday with today's date in its text; taken
\* earlier; one whose created_time makes datetime.fromtimestamp raise
CastelfidardoToday ==
  Story(1, "today", <<MensaCastelfidardo, PrimiPiatti, PastaAlPomodoro>>)
PerroneYesterday ==
  Story(2, "yesterday", <<MensaPerroneCenaToday, PrimiPiatti, PastaAlPomodoro>>)
PrincipeAmedeoOlder ==
  Story(3, "older", <<MensaPrincipeAmedeo, PrimiPiatti, PastaAlPomodoro>>)
BadTimestamp ==
  Story(4, "raises", <<MensaCastelfidardo, PrimiPiatti, PastaAlPomodoro>>)

StoryCatalogue == {CastelfidardoToday, PerroneYesterday, PrincipeAmedeoOlder, BadTimestamp}

\* more stories for the pipeline by itself: yesterday's with today's date and
\* no menu word; yesterday's menu without a date; an undated, longer menu of
\* Castelfidardo; another menu of Castelfidardo as long as the first; a menu
\* that names no cafeteria; an image that could not be read; an old story
\* with today's date in its text
RisottoAiFunghi == Line({"risotto"}, 17)
ChiusoOggi == Line({TodayFormat, TodayToken}, 17)
YesterdayDateOnly == Story(5, "yesterday", <<ChiusoOggi>>)
YesterdayMenuNoDate ==
  Story(6, "yesterday", <<MensaCastelfidardo, PrimiPiatti, PastaAlPomodoro>>)
CastelfidardoLonger ==
  Story(7, "unknown", <<MensaCastelfidardo, PrimiPiatti, PastaAlPomodoro, RisottoAiFunghi>>)
CastelfidardoOther ==
  Story(8, "today", <<MensaCastelfidardo, PrimiPiatti, RisottoAiFunghi>>)
NoAliasMenu == Story(9, "today", <<PrimiPiatti, PastaAlPomodoro>>)
TodayNoText == Story(10, "today", << >>)
PerroneOlder ==
  Story(11, "older", <<MensaPerroneCenaToday, PrimiPiatti, PastaAlPomodoro>>)
\* yesterday's menu with "<today's day> a scelta" among its lines
ContornoAScelta == Line({TodayFragment}, 21)
YesterdayMenuFragment ==
  Story(12, "yesterday", <<MensaCastelfidardo, PrimiPiatti, ContornoAScelta>>)

ProbeCatalogue ==
  {CastelfidardoToday, PerroneYesterday, PrincipeAmedeoOlder, YesterdayDateOnly,
   YesterdayMenuNoDate, CastelfidardoLonger, CastelfidardoOther, NoAliasMenu,
   TodayNoText, PerroneOlder, YesterdayMenuFragment}

ProbeLists == UNION {[1..n -> ProbeCatalogue] : n \in 0..MaxStories}

\* the story lists a listing can return
StoryLists == UNION {[1..n -> StoryCatalogue] : n \in 0..MaxStories}

\* the stories the direct call of lines 343-355 builds: id, pk and
\* thumbnail_url only, so no date can be determined
DirectStories(items) == [i \in 1..Len(items) |-> [items[i] EXCEPT !.date = "unknown"]]

UserIdScenarios ==
  { <<"ok", "ok", "ok">>, <<"error", "ok", "ok">>, <<"error", "error", "error">>,
    <<"json_error", "json_error", "json_error">>, <<"falsy", "falsy", "falsy">> }

\* <<outcomes, direct>>
ListingScenarios ==
  { <<<<"ok", "ok", "ok">>, "no_reel">>, <<<<"error", "ok", "ok">>, "no_reel">>,
    <<<<"error", "error", "error">>, "no_reel">>,
    <<<<"json_error", "json_error", "json_error">>, "reel">>,
    <<<<"json_error", "json_error", "json_error">>, "no_reel">>,
    <<<<"json_error", "json_error", "json_error">>, "raises">> }

\* a client call threw during the first n attempts
Threw(outcomes, n) == \E i \in 1..n : outcomes[i] \in {"error", "json_error"}

\* one fetch cycle's outside world: what the user-id lookups and the story
\* listings do, the stories a listing returns, whether tesseract answers
Env(uo, ls, listed, tesseract) ==
  [user_id |-> uo, listing |-> ls[1], direct |-> ls[2], listed |-> listed,
   tesseract |-> tesseract]

AllOk == <<"ok", "ok", "ok">>
PlainListing == <<AllOk, "no_reel">>

Environments ==
  {Env(uo, PlainListing, <<CastelfidardoToday>>, TRUE) : uo \in UserIdScenarios}
  \cup {Env(AllOk, ls, <<CastelfidardoToday>>, TRUE) : ls \in ListingScenarios}
  \cup {Env(AllOk, PlainListing, listed, TRUE) : listed \in StoryLists}
  \cup {Env(AllOk, PlainListing, <<CastelfidardoToday>>, FALSE)}

\* the three outcomes that matter to the callers of fetch_menus: nothing
\* posted, a menu read, nothing usable
CoarseEnvironments ==
  {Env(AllOk, PlainListing, listed, TRUE) :
     listed \in {<< >>, <<CastelfidardoToday>>, <<PrincipeAmedeoOlder>>}}

(***************************************************************************)
(* State.                                                                   *)
(***************************************************************************)
Threads == {"main", "sched", "console", "bot"}

VARIABLES
  menus,            \* App.menus
  logged_in,        \* InstApi.logged_in
  demo_mode,        \* InstApi.demo_mode
  login_attempts,   \* InstApi.login_attempts
  cached_user_id,   \* InstApi._cached_user_id, None while the attribute is absent
  session_file,     \* os.path.exists(self.session_file)
  update_enabled,   \* App.update_enabled exists and is set
  args,             \* the command line: [demo, console_only]
  pc,               \* where each thread is
  via,              \* what called fetch_daily_menus on the thread
  retry_count,      \* the local retry_count of fetch_daily_menus
  cycles,           \* fetch_daily_menus calls started so far
  effects,          \* what login has done so far: the sleeps it took and the
                    \* session loads, credential reads and network logins it made
  public_request,   \* PublicRequestMixin.public_request: the number of
                    \* patched_public_request wrappers around the original
  probe,            \* a call of the story pipeline by itself: its arguments and
                    \* what it returned
  last              \* the most recent return of fetch_menus: the path it took
                    \* and the client calls that threw on the way

vars == <<menus, logged_in, demo_mode, login_attempts, cached_user_id, session_file,
          update_enabled, args, pc, via, retry_count, cycles, effects, last, probe,
          public_request>>

NoReturn == [path |-> None, raised |-> {}]

\* the fields of App and InstApi as the constructors leave them, the threads
\* before App.run / App.run_console_only
Constructed ==
  /\ menus = EmptyTable
  /\ logged_in = FALSE
  /\ demo_mode = FALSE
  /\ login_attempts = 0
  /\ cached_user_id = None
  /\ session_file \in BOOLEAN
  /\ update_enabled = FALSE
  /\ args \in [demo : BOOLEAN, console_only : BOOLEAN]
  /\ pc = [t \in Threads |->
             CASE t = "main" -> "run_start" [] t = "sched" -> "idle" [] OTHER -> "off"]
  /\ via = [t \in Threads |-> None]
  /\ retry_count = [t \in Threads |-> 0]
  /\ cycles = 0
  /\ effects = [sleeps |-> {}, calls |-> {}]
  /\ last = NoReturn
  /\ public_request = 0

\* no call of the story pipeline by itself
NoProbe == [stage |-> "none"]

\* __init__ of App and InstApi, before App.run / App.run_console_only
Init ==
  /\ probe = NoProbe
  /\ Constructed

(***************************************************************************)
(* InstApi.login, lines 105-175.                                            *)
(***************************************************************************)
\* a ceiling test that lets the attempt after the third through
LoginCeilingPassed(attempts) == attempts > max_login_attempts

\* line 114
LoginCeilingReached(attempts) == attempts >= max_login_attempts

\* a backoff that doubles from the first retry on
BackoffTimeDoubledAtOnce(attempts) == login_backoff * (2 ^ (attempts - 1))

\* line 123
BackoffTime(attempts) == login_backoff * (2 ^ (attempts - 2))

\* fetch_menus returns `table` and line 76 of app.py stores it:
\* self.menus = self.instagram.fetch_menus()
Returns(t, table, path, raised) ==
  /\ menus' = table
  /\ last' = [path |-> path, raised |-> raised]
  /\ pc' = [pc EXCEPT ![t] = "fdm_count"]

\* a fetch_menus that goes on to the user-id lookup whatever login returned
LoginReturnsGoesOn(t, result, path) ==
  /\ pc' = [pc EXCEPT ![t] = IF via[t] = None THEN "run_fetch" ELSE "fm_body"]
  /\ UNCHANGED <<menus, last>>

\* where login returns to: App.run (line 170) or fetch_menus (line 200).
\* Inside fetch_menus a False return ends the call with the annotated
\* placeholders (lines 201-207).
LoginReturns(t, result, path) ==
  IF via[t] = None
    THEN /\ pc' = [pc EXCEPT ![t] = "run_fetch"]
         /\ UNCHANGED <<menus, last>>
    ELSE IF result
      THEN /\ pc' = [pc EXCEPT ![t] = "fm_body"]
           /\ UNCHANGED <<menus, last>>
      ELSE Returns(t, PlaceholderTable(LoginFailedReason), path, {})

\* lines 107-116: the demo check and the ceiling check
LoginCheck(t) ==
  /\ pc[t] = "login_check"
  /\ IF demo_mode \/ LoginCeilingReached(login_attempts)
       THEN LoginReturns(t, FALSE, "login_refused")
       ELSE /\ pc' = [pc EXCEPT ![t] = "login_inc"]
            /\ UNCHANGED <<menus, last>>
  /\ UNCHANGED <<logged_in, demo_mode, login_attempts, cached_user_id, session_file,
                 update_enabled, args, via, retry_count, cycles, effects>>
  /\ UNCHANGED <<probe, public_request>>

\* lines 119-125: count the attempt, sleep on a retry
LoginInc(t) ==
  /\ pc[t] = "login_inc"
  /\ login_attempts' = login_attempts + 1
  /\ effects' = IF login_attempts + 1 > 1
                  THEN [effects EXCEPT !.sleeps = @ \cup {BackoffTime(login_attempts + 1)}]
                  ELSE effects
  /\ pc' = [pc EXCEPT ![t] = "login_try"]
  /\ UNCHANGED <<menus, logged_in, demo_mode, cached_user_id, session_file,
                 update_enabled, args, via, retry_count, cycles, last>>
  /\ UNCHANGED <<probe, public_request>>

\* what the outside world answers to one login call: client.load_settings
\* and client.user_id ("user_id", "falsy" or "raises"),
\* get_instagram_credentials and client.login ("ok" or "raises")
LoginWorlds ==
  [load : {"user_id", "falsy", "raises"}, credentials : {"ok", "raises"},
   network : {"ok", "raises"}]

\* an attempt that reads the credentials before it looks at the saved session
LoginAttemptCredentialsFirst(file, w) ==
  IF w.credentials = "raises"
    THEN [result |-> FALSE, logged_in |-> FALSE, saved |-> FALSE,
          calls |-> <<"credential_read">>]
  ELSE IF file /\ w.load = "user_id"
    THEN [result |-> TRUE, logged_in |-> TRUE, saved |-> FALSE,
          calls |-> <<"credential_read", "session_load">>]
  ELSE IF w.network = "raises"
    THEN [result |-> FALSE, logged_in |-> FALSE, saved |-> FALSE,
          calls |-> <<"credential_read", "network_login">>]
  ELSE [result |-> TRUE, logged_in |-> TRUE, saved |-> TRUE,
        calls |-> <<"credential_read", "network_login", "session_dump">>]

\* lines 127-175: session reuse, credentials, network login, with the saved
\* session `file` there or not: [result, logged_in (set to True), saved
\* (dump_settings ran), calls (what it called, in order)]
LoginAttempt(file, w) ==
  LET loaded == IF file THEN <<"session_load">> ELSE << >>
  IN IF file /\ w.load = "user_id"
       THEN [result |-> TRUE, logged_in |-> TRUE, saved |-> FALSE, calls |-> loaded]
     ELSE IF w.credentials = "raises"
       THEN [result |-> FALSE, logged_in |-> FALSE, saved |-> FALSE,
             calls |-> loaded \o <<"credential_read">>]
     ELSE IF w.network = "raises"
       THEN [result |-> FALSE, logged_in |-> FALSE, saved |-> FALSE,
             calls |-> loaded \o <<"credential_read", "network_login">>]
     ELSE [result |-> TRUE, logged_in |-> TRUE, saved |-> TRUE,
           calls |-> loaded \o <<"credential_read", "network_login", "session_dump">>]

\* lines 127-175 on a thread; effects keeps the session loads, credential
\* reads and network logins
LoginTry(t) ==
  /\ pc[t] = "login_try"
  /\ \E w \in LoginWorlds :
       LET a == LoginAttempt(session_file, w)
       IN /\ effects' = [effects EXCEPT
                           !.calls = @ \cup ({a.calls[i] : i \in 1..Len(a.calls)}
                                              \ {"session_dump"})]
          /\ logged_in' = (logged_in \/ a.logged_in)
          /\ session_file' = (session_file \/ a.saved)
          /\ LoginReturns(t, a.result, IF a.result THEN None ELSE "login_failed")
  /\ UNCHANGED <<demo_mode, login_attempts, cached_user_id, update_enabled, args, via,
                 retry_count, cycles>>
  /\ UNCHANGED <<probe, public_request>>

(***************************************************************************)
(* InstApi.fetch_menus, lines 177-285.                                      *)
(***************************************************************************)
\* an entry that tries to log in before it looks at the demo flag
FetchMenusEntryLoginFirst(t) ==
  /\ pc[t] = "fm_entry"
  /\ IF ~logged_in
       THEN /\ pc' = [pc EXCEPT ![t] = "login_check"]
            /\ UNCHANGED <<menus, last>>
       ELSE IF demo_mode
         THEN Returns(t, PlaceholderTable(""), "demo", {})
         ELSE /\ pc' = [pc EXCEPT ![t] = "fm_body"]
              /\ UNCHANGED <<menus, last>>
  /\ UNCHANGED <<logged_in, demo_mode, login_attempts, cached_user_id, session_file,
                 update_enabled, args, via, retry_count, cycles, effects>>
  /\ UNCHANGED <<probe, public_request>>

\* an entry that prepares the 'not available' rows in the table the host holds
FetchMenusEntryInPlace(t) ==
  /\ pc[t] = "fm_entry"
  /\ IF demo_mode
       THEN Returns(t, PlaceholderTable(""), "demo", {})
       ELSE /\ pc' = [pc EXCEPT ![t] = IF logged_in THEN "fm_body" ELSE "login_check"]
            /\ menus' = InitialTable
            /\ UNCHANGED last
  /\ UNCHANGED <<logged_in, demo_mode, login_attempts, cached_user_id, session_file,
                 update_enabled, args, via, retry_count, cycles, effects>>
  /\ UNCHANGED <<probe, public_request>>

\* lines 181-208: the demo branch and the logged-in test
FetchMenusEntry(t) ==
  /\ pc[t] = "fm_entry"
  /\ IF demo_mode
       THEN Returns(t, PlaceholderTable(""), "demo", {})
       ELSE /\ pc' = [pc EXCEPT ![t] = IF logged_in THEN "fm_body" ELSE "login_check"]
            /\ UNCHANGED <<menus, last>>
  /\ UNCHANGED <<logged_in, demo_mode, login_attempts, cached_user_id, session_file,
                 update_enabled, args, via, retry_count, cycles, effects>>
  /\ UNCHANGED <<probe, public_request>>

\* the steps in which something threw during the call: a client call of the
\* user-id lookup or of the story listing, the OCR probe, the date filter
RaisedOnTheWay(e, u, g) ==
  (IF Threw(e.user_id, u.calls) THEN {"user_id"} ELSE {})
  \cup (IF Threw(e.listing, g.calls) \/ (g.direct_calls = 1 /\ e.direct = "raises")
          THEN {"listing"} ELSE {})
  \cup (IF Len(g.stories) > 0 /\ ~e.tesseract THEN {"ocr_probe"} ELSE {})
  \cup (IF e.tesseract /\ FilterCurrentDayStories(g.stories, TRUE).raised
          THEN {"filter"} ELSE {})

\* lines 210-221 and 278-283: public_request is wrapped once more, and set
\* back to what it was at line 212 on the way out through line 281; the
\* return of line 229 leaves before that
PublicRequestAfter(wrappers, user_id) ==
  IF user_id = None THEN wrappers + 1 ELSE wrappers

\* lines 210-285: the patch, user id, story listing, OCR probe, extraction,
\* merge, the patch undone
FetchMenusBody(t, envs) ==
  /\ pc[t] = "fm_body"
  /\ \E e \in envs :
       LET u == GetUserIdWithRetry(cached_user_id, e.user_id)
           g == IF u.user_id = None
                  THEN [stories |-> << >>, calls |-> 0, direct_calls |-> 0]
                  ELSE GetStoriesWithRetry(e.listing, e.direct, e.listed,
                                           DirectStories(e.listed))
           r == FetchMenusTail(u.user_id, g.stories, e.tesseract)
       IN /\ PublicRequestAfter(public_request, u.user_id) <= MaxWrappers
          /\ cached_user_id' = u.cached
          /\ public_request' = PublicRequestAfter(public_request, u.user_id)
          /\ Returns(t, r.table, r.path, RaisedOnTheWay(e, u, g))
  /\ UNCHANGED <<logged_in, demo_mode, login_attempts, session_file, update_enabled, args,
                 via, retry_count, cycles, effects>>
  /\ UNCHANGED probe

(***************************************************************************)
(* App.fetch_daily_menus, app.py lines 68-110.                              *)
(***************************************************************************)
Fetching(t) == via[t] # None

\* a thread is somewhere between the start and the end of an operation
Busy(t) == pc[t] \notin {"off", "idle", "main_loop"}

\* lines 70-76: a caller enters fetch_daily_menus and its loop; the run has
\* room for `calls` calls, `overlap` of them at a time
FdmBegin(t, caller, overlap, calls) ==
  /\ cycles < calls
  /\ Cardinality({o \in Threads \ {t} : Busy(o)}) < overlap
  /\ cycles' = cycles + 1
  /\ pc' = [pc EXCEPT ![t] = "fm_entry"]
  /\ via' = [via EXCEPT ![t] = caller]
  /\ retry_count' = [retry_count EXCEPT ![t] = 0]
  /\ UNCHANGED <<menus, logged_in, demo_mode, login_attempts, cached_user_id,
                 session_file, update_enabled, args, effects, last>>
  /\ UNCHANGED <<probe, public_request>>

\* the thread goes back to its caller: App.run starts the bot thread (lines
\* 186-191), the other callers go back to waiting
FdmReturns(t) ==
  /\ pc' = IF t = "main" THEN [pc EXCEPT !["main"] = "main_loop", !["bot"] = "idle"]
                         ELSE [pc EXCEPT ![t] = "idle"]
  /\ via' = [via EXCEPT ![t] = None]

\* lines 101-108: placeholders only when self.menus is empty
Fallback(menus_) == IF menus_ = EmptyTable THEN PlaceholderTable("") ELSE menus_

\* lines 77-110: count the valid menus of self.menus; return them, or
\* count the failure and sleep 5 s before the next fetch_menus call, or
\* give up after the third failure
FdmCount(t) ==
  /\ pc[t] = "fdm_count"
  /\ IF MenuCount(menus) > 0
       THEN /\ UNCHANGED <<retry_count, menus>>
            /\ FdmReturns(t)
       ELSE /\ retry_count' = [retry_count EXCEPT ![t] = @ + 1]
            /\ IF retry_count[t] + 1 < fdm_max_retries
                 THEN /\ pc' = [pc EXCEPT ![t] = "fm_entry"]
                      /\ UNCHANGED <<via, menus>>
                 ELSE /\ menus' = Fallback(menus)
                      /\ FdmReturns(t)
  /\ UNCHANGED <<logged_in, demo_mode, login_attempts, cached_user_id,
                 session_file, update_enabled, args, cycles, effects, last>>
  /\ UNCHANGED <<probe, public_request>>

(***************************************************************************)
(* The threads.                                                             *)
(***************************************************************************)
\* App.run lines 154-165 / run_console_only lines 222-228: the console
\* thread starts and update_enabled is created and set
RunStart ==
  /\ pc["main"] = "run_start"
  /\ pc' = [pc EXCEPT !["main"] = IF args.console_only THEN "main_loop" ELSE "run_mode",
                      !["console"] = "idle"]
  /\ update_enabled' = TRUE
  /\ UNCHANGED <<menus, logged_in, demo_mode, login_attempts, cached_user_id,
                 session_file, args, via, retry_count, cycles, effects, last>>
  /\ UNCHANGED <<probe, public_request>>

\* App.run lines 167-176: login, or switch the client to demo mode
RunMode ==
  /\ pc["main"] = "run_mode"
  /\ IF args.demo
       THEN demo_mode' = TRUE /\ pc' = [pc EXCEPT !["main"] = "run_fetch"]
       ELSE demo_mode' = demo_mode /\ pc' = [pc EXCEPT !["main"] = "login_check"]
  /\ UNCHANGED <<menus, logged_in, login_attempts, cached_user_id, session_file,
                 update_enabled, args, via, retry_count, cycles, effects, last>>
  /\ UNCHANGED <<probe, public_request>>

\* App.run line 180
RunInitialFetch(overlap, calls) ==
  /\ pc["main"] = "run_fetch"
  /\ FdmBegin("main", "run_initial", overlap, calls)

\* a scheduler that runs the job whatever the flag says
ScheduledMenuFetchUnguarded(overlap, calls) ==
  /\ pc["sched"] = "idle"
  /\ FdmBegin("sched", "scheduled", overlap, calls)

\* App._run_scheduler / scheduled_menu_fetch, lines 50-66: the 07:00 job
ScheduledMenuFetch(overlap, calls) ==
  /\ pc["sched"] = "idle"
  /\ update_enabled
  /\ FdmBegin("sched", "scheduled", overlap, calls)

\* ConsoleCommands.cmd_update, console.py line 572
CmdUpdate(overlap, calls) ==
  /\ pc["console"] = "idle"
  /\ FdmBegin("console", "cmd_update", overlap, calls)

\* Telebot.handle_button -> _update_menus, telebot.py line 334: the
\* coroutine calls fetch_daily_menus itself, on the bot's event loop
BotUpdateMenus(overlap, calls) ==
  /\ pc["bot"] = "idle"
  /\ FdmBegin("bot", "update_menus", overlap, calls)

\* App.get_menu lines 115-118, reached from cmd_show_menu (console.py 651)
\* and from the bot's keyboards and menu views (telebot.py 45, 53, 252, 303)
GetMenuLazyFetch(t, overlap, calls) ==
  /\ t \in {"console", "bot"}
  /\ pc[t] = "idle"
  /\ menus = EmptyTable
  /\ FdmBegin(t, "lazy_get_menu", overlap, calls)

\* App.get_menu lines 121-129: the lookup itself
AppGetMenu(menus_, cafeteria_name, meal_type) ==
  IF cafeteria_name \in DOMAIN menus_ THEN menus_[cafeteria_name][meal_type]
                                      ELSE LookupDefault

\* InstApi.get_menu lines 793-799
InstApiGetMenu(menus_, cafeteria_name, meal_type) ==
  AppGetMenu(menus_,
             IF cafeteria_name \in DOMAIN name_mapping THEN name_mapping[cafeteria_name]
                                                     ELSE cafeteria_name,
             meal_type)

Step(envs, overlap, calls) ==
  \/ RunStart
  \/ RunMode
  \/ RunInitialFetch(overlap, calls)
  \/ ScheduledMenuFetch(overlap, calls)
  \/ CmdUpdate(overlap, calls)
  \/ BotUpdateMenus(overlap, calls)
  \/ \E t \in Threads : GetMenuLazyFetch(t, overlap, calls)
  \/ \E t \in Threads : LoginCheck(t)
  \/ \E t \in Threads : LoginInc(t)
  \/ \E t \in Threads : LoginTry(t)
  \/ \E t \in Threads : FetchMenusEntry(t)
  \/ \E t \in Threads : FetchMenusBody(t, envs)
  \/ \E t \in Threads : FdmCount(t)

(***************************************************************************)
(* The story pipeline by itself: _filter_current_day_stories and            *)
(* _extract_menus_from_stories called on a list of stories.                 *)
(***************************************************************************)
ProgramUnchanged ==
  UNCHANGED <<menus, logged_in, demo_mode, login_attempts, cached_user_id, session_file,
              update_enabled, args, pc, via, retry_count, cycles, effects, last,
              public_request>>

StoriesInit ==
  /\ Constructed
  /\ ~session_file
  /\ args = [demo |-> FALSE, console_only |-> FALSE]
  /\ \E stories \in ProbeLists : \E tesseract \in BOOLEAN :
       probe = [stage |-> "listed", stories |-> stories, tesseract |-> tesseract,
                filtered |-> [raised |-> FALSE, kept |-> << >>],
                extracted |-> [raised |-> FALSE, table |-> ExtractedInit]]

\* _filter_current_day_stories(stories)
FilterCall ==
  /\ probe.stage = "listed"
  /\ probe' = [probe EXCEPT
                 !.stage = "filtered",
                 !.filtered = FilterCurrentDayStories(probe.stories, probe.tesseract)]
  /\ ProgramUnchanged

\* _extract_menus_from_stories(stories)
ExtractCall ==
  /\ probe.stage = "filtered"
  /\ probe' = [probe EXCEPT
                 !.stage = "extracted",
                 !.extracted = ExtractMenusFromStories(probe.stories, probe.tesseract)]
  /\ ProgramUnchanged

StoriesNext == FilterCall \/ ExtractCall

(***************************************************************************)
(* The story listing by itself: _get_stories_with_retry called against      *)
(* every sequence of outcomes of the three listing attempts.                *)
(***************************************************************************)
ListingOutcomes == [1..max_retries -> {"ok", "json_error", "error"}]

ListingInit ==
  /\ Constructed
  /\ ~session_file
  /\ args = [demo |-> FALSE, console_only |-> FALSE]
  /\ \E outcomes \in ListingOutcomes : \E direct \in {"reel", "no_reel", "raises"} :
     \E listed \in {<<CastelfidardoToday>>, <<CastelfidardoToday, PerroneYesterday>>} :
       probe = [stage |-> "listing", outcomes |-> outcomes, direct |-> direct,
                listed |-> listed,
                returned |-> [stories |-> << >>, calls |-> 0, direct_calls |-> 0,
                              sleeps |-> << >>]]

\* _get_stories_with_retry(user_id)
GetStoriesCall ==
  /\ probe.stage = "listing"
  /\ probe' = [probe EXCEPT
                 !.stage = "listing_returned",
                 !.returned = GetStoriesWithRetry(probe.outcomes, probe.direct, probe.listed,
                                                  DirectStories(probe.listed))]
  /\ ProgramUnchanged

ListingNext == GetStoriesCall

ListingSpec == ListingInit /\ [][ListingNext]_vars

StoriesSpec == StoriesInit /\ [][StoriesNext]_vars

(***************************************************************************)
(* The text functions by themselves: _identify_cafeteria_from_text and      *)
(* _identify_meal_type called on every text of up to MaxLines lines.        *)
(***************************************************************************)
ViaPrincipeAmedeo == Line({"principe amedeo", "via principe"}, 19)
MensaUniversitaria == Line({"mensa"}, 19)
PranzoECena == Line({"pranzo", "cena"}, 13)
CenaLine == Line({"cena"}, 4)

IdentifyLines ==
  {MensaCastelfidardo, MensaPerroneCenaToday, ViaPrincipeAmedeo, MensaUniversitaria,
   PrimiPiatti, PranzoECena, CenaLine, PastaAlPomodoro}

IdentifyTexts == UNION {[1..n -> IdentifyLines] : n \in 0..MaxLines}

IdentifyInit ==
  /\ Constructed
  /\ ~session_file
  /\ args = [demo |-> FALSE, console_only |-> FALSE]
  /\ \E text \in IdentifyTexts : \E existing_menus \in {{}, Cafeterias} :
       probe = [stage |-> "text", text |-> text, existing_menus |-> existing_menus,
                returned |-> None]

\* _identify_cafeteria_from_text(text, existing_menus)
IdentifyCafeteriaCall ==
  /\ probe.stage = "text"
  /\ probe' = [probe EXCEPT
                 !.stage = "cafeteria_returned",
                 !.returned = IdentifyCafeteriaFromText(probe.text, probe.existing_menus)]
  /\ ProgramUnchanged

\* _identify_meal_type(text)
IdentifyMealTypeCall ==
  /\ probe.stage = "text"
  /\ probe' = [probe EXCEPT
                 !.stage = "meal_returned",
                 !.returned = IdentifyMealType(probe.text)]
  /\ ProgramUnchanged

IdentifyNext == IdentifyCafeteriaCall \/ IdentifyMealTypeCall

IdentifySpec == IdentifyInit /\ [][IdentifyNext]_vars

(***************************************************************************)
(* The menu formatter by itself: _process_menu_text called on every text   *)
(* of up to MaxLines lines.                                                 *)
(***************************************************************************)
SecondiPiatti == Line({"secondi piatti", "secondi"}, 14)
DessertHeader == Line({"dessert"}, 7)
\* "Menu primi piatti", "Menu dessert": a header keyword next to a boilerplate one
MenuPrimiPiatti == Line({"menu", "primi piatti", "primi"}, 17)
MenuDessert == Line({"menu", "dessert"}, 12)
\* "Uva", "Riso": 3 and 4 characters
Uva == Line({}, 3)
Riso == Line({}, 4)
Contorni == Line({"contorni"}, 8)

MenuLines ==
  {MensaCastelfidardo, PrimiPiatti, SecondiPiatti, DessertHeader, MenuPrimiPiatti,
   MenuDessert, PastaAlPomodoro, RisottoAiFunghi, Uva, Riso, Contorni}

MenuTexts == UNION {[1..n -> MenuLines] : n \in 0..MaxLines}

MenuTextInit ==
  /\ Constructed
  /\ ~session_file
  /\ args = [demo |-> FALSE, console_only |-> FALSE]
  /\ \E text \in MenuTexts :
       probe = [stage |-> "menu_text", text |-> text,
                returned |-> [kind |-> "menu", lines |-> << >>]]

\* _process_menu_text(text, cafeteria, meal_type)
ProcessMenuTextCall ==
  /\ probe.stage = "menu_text"
  /\ probe' = [probe EXCEPT
                 !.stage = "menu_returned",
                 !.returned = ProcessMenuText(probe.text, "Castelfidardo", "pranzo")]
  /\ ProgramUnchanged

MenuTextNext == ProcessMenuTextCall

MenuTextSpec == MenuTextInit /\ [][MenuTextNext]_vars

(***************************************************************************)
(* login by itself: one call on an InstApi in any state the counters allow, *)
(* against every answer of the saved session, the credential store and the  *)
(* network.                                                                 *)
(***************************************************************************)
\* time.sleep(secs), and a call without a duration
Sleep(secs) == [call |-> "sleep", secs |-> secs]

Call(name) == [call |-> name, secs |-> 0]

\* login(), lines 104-175, on self = [demo_mode, login_attempts, logged_in,
\* session_file]: [result, self (after the call), trace (the sleeps and the
\* calls it made, in order)]
Login(self, w) ==
  IF self.demo_mode \/ LoginCeilingReached(self.login_attempts)
    THEN [result |-> FALSE, self |-> self, trace |-> << >>]
  ELSE LET n == self.login_attempts + 1
           a == LoginAttempt(self.session_file, w)
       IN [result |-> a.result,
           self |-> [self EXCEPT !.login_attempts = n,
                                 !.logged_in = @ \/ a.logged_in,
                                 !.session_file = @ \/ a.saved],
           trace |-> (IF n > 1 THEN <<Sleep(BackoffTime(n))>> ELSE << >>)
                     \o [i \in 1..Len(a.calls) |-> Call(a.calls[i])]]

LoginSelves ==
  [demo_mode : BOOLEAN, login_attempts : 0..max_login_attempts, logged_in : BOOLEAN,
   session_file : BOOLEAN]

LoginInit ==
  /\ Constructed
  /\ ~session_file
  /\ args = [demo |-> FALSE, console_only |-> FALSE]
  /\ \E self \in LoginSelves : \E w \in LoginWorlds :
       probe = [stage |-> "login", self |-> self, world |-> w,
                returned |-> [result |-> FALSE, self |-> self, trace |-> << >>]]

\* login()
LoginCall ==
  /\ probe.stage = "login"
  /\ probe' = [probe EXCEPT
                 !.stage = "login_returned",
                 !.returned = Login(probe.self, probe.world)]
  /\ ProgramUnchanged

LoginNext == LoginCall

LoginSpec == LoginInit /\ [][LoginNext]_vars

(***************************************************************************)
(* fetch_menus after the user-id lookup (lines 233-269): the story listing, *)
(* the tesseract probe and what becomes of the table, against every listing *)
(* scenario, every list of stories and both answers of the probe.           *)
(***************************************************************************)
TailEnvironments ==
  {Env(AllOk, ls, listed, tesseract) :
     ls \in ListingScenarios, listed \in StoryLists, tesseract \in BOOLEAN}

TailInit ==
  /\ Constructed
  /\ ~session_file
  /\ args = [demo |-> FALSE, console_only |-> FALSE]
  /\ \E e \in TailEnvironments :
       probe = [stage |-> "resolved", env |-> e,
                returned |-> [stories |-> << >>, table |-> InitialTable, path |-> "-"]]

\* lines 233-269 of fetch_menus with user_id in hand
FetchMenusTailCall ==
  /\ probe.stage = "resolved"
  /\ LET e == probe.env
         g == GetStoriesWithRetry(e.listing, e.direct, e.listed, DirectStories(e.listed))
         r == FetchMenusTail(LiveUserId, g.stories, e.tesseract)
     IN probe' = [probe EXCEPT
                    !.stage = "fetched",
                    !.returned = [stories |-> g.stories, table |-> r.table,
                                  path |-> r.path]]
  /\ ProgramUnchanged

TailNext == FetchMenusTailCall

TailSpec == TailInit /\ [][TailNext]_vars

(***************************************************************************)
(* One fetch cycle by itself: the loop of fetch_daily_menus (app.py lines   *)
(* 74-93) around fetch_menus, with a count of what each fetch_menus call    *)
(* did.                                                                     *)
(***************************************************************************)
\* fetch_menus(), lines 177-285, on self and the cached user id:
\* [table, self, cached, logins, user_id_calls, listing_calls, direct_calls]
FetchMenusOnce(self, cached, w, e) ==
  LET none == [table |-> PlaceholderTable(""), self |-> self, cached |-> cached,
               logins |-> 0, user_id_calls |-> 0, listing_calls |-> 0,
               direct_calls |-> 0]
      l == IF self.logged_in THEN [result |-> TRUE, self |-> self, trace |-> << >>]
                             ELSE Login(self, w)
      u == GetUserIdWithRetry(cached, e.user_id)
      g == IF u.user_id = None
             THEN [stories |-> << >>, calls |-> 0, direct_calls |-> 0]
             ELSE GetStoriesWithRetry(e.listing, e.direct, e.listed,
                                      DirectStories(e.listed))
      r == FetchMenusTail(u.user_id, g.stories, e.tesseract)
  IN IF self.demo_mode THEN none
     ELSE IF ~l.result
       THEN [none EXCEPT !.table = PlaceholderTable(LoginFailedReason),
                         !.self = l.self, !.logins = 1]
     ELSE [table |-> r.table, self |-> l.self, cached |-> u.cached,
           logins |-> IF self.logged_in THEN 0 ELSE 1,
           user_id_calls |-> IF cached # None THEN 0 ELSE u.calls,
           listing_calls |-> g.calls, direct_calls |-> g.direct_calls]

\* a loop that goes round once more after the last retry
RetryAgainInclusive(retry_count_) == retry_count_ <= fdm_max_retries

\* app.py line 74: while retry_count < max_retries
RetryAgain(retry_count_) == retry_count_ < fdm_max_retries

\* the InstApi objects a cycle can start on
CycleSelves ==
  {self \in LoginSelves :
     /\ self.demo_mode => (~self.logged_in /\ self.login_attempts = 0)
     /\ self.logged_in => self.login_attempts >= 1}

\* what the user-id lookups and the story listings can answer during a
\* cycle, with a story that is read and one whose timestamp makes the filter
\* throw
CycleEnvironments ==
  {Env(uo, ls, listed, TRUE) :
     uo \in UserIdScenarios, ls \in ListingScenarios,
     listed \in {<<CastelfidardoToday>>, <<BadTimestamp>>}}

NoFetch == [logins |-> 0, user_id_calls |-> 0, listing_calls |-> 0, direct_calls |-> 0]

CycleInit ==
  /\ Constructed
  /\ ~session_file
  /\ args = [demo |-> FALSE, console_only |-> FALSE]
  /\ \E self \in CycleSelves : \E cached \in {None, LiveUserId} :
       /\ cached # None => self.logged_in
       /\ probe = [stage |-> "cycle", self |-> self, cached |-> cached,
                   retry_count |-> 0, fetches |-> 0, sleeps |-> 0, fetch |-> NoFetch,
                   table |-> EmptyTable]

\* app.py lines 74-93: one round of the loop of fetch_daily_menus
FetchDailyMenusRound ==
  /\ probe.stage = "cycle"
  /\ RetryAgain(probe.retry_count)
  /\ \E e \in CycleEnvironments : \E w \in LoginWorlds :
     \E f \in {FetchMenusOnce(probe.self, probe.cached, w, e)} :
     \E valid \in {MenuCount(f.table) > 0} :
       LET retries == IF valid THEN probe.retry_count ELSE probe.retry_count + 1
       IN probe' = [probe EXCEPT
                      !.self = f.self,
                      !.cached = f.cached,
                      !.table = f.table,
                      !.fetches = @ + 1,
                      !.fetch = [logins |-> f.logins, user_id_calls |-> f.user_id_calls,
                                 listing_calls |-> f.listing_calls,
                                 direct_calls |-> f.direct_calls],
                      !.retry_count = retries,
                      !.sleeps = IF ~valid /\ retries < fdm_max_retries THEN @ + 1 ELSE @,
                      !.stage = IF ~valid /\ RetryAgain(retries) THEN "cycle"
                                ELSE "cycle_returned"]
  /\ ProgramUnchanged

CycleNext == FetchDailyMenusRound

\* each round ends once its external calls have returned or raised
CycleSpec == CycleInit /\ [][CycleNext]_vars /\ WF_vars(CycleNext)

(***************************************************************************)
(* The inline keyboards of Telebot and handle_button.  A callback_data      *)
(* string is the sequence of its pieces, "_" a piece of its own; probe      *)
(* holds the keyboard on the screen, the button pressed and the handler     *)
(* handle_button called for it.                                             *)
(***************************************************************************)
\* "a_b_c" for <<a, b, c>>
RECURSIVE Underscored(_)
Underscored(words) ==
  IF Len(words) <= 1 THEN words
  ELSE <<Head(words), "_">> \o Underscored(Tail(words))

\* callback_data.startswith(prefix)
StartsWith(data, prefix) ==
  Len(data) >= Len(prefix) /\ SubSeq(data, 1, Len(prefix)) = prefix

\* callback_data[n:]
From(data, n) == SubSeq(data, n + 1, Len(data))

\* s.split("_", 1)
SplitOnce(data) ==
  LET i == FirstIndex(data, {"_"})
  IN IF i = 0 THEN <<data>>
     ELSE <<SubSeq(data, 1, i - 1), SubSeq(data, i + 1, Len(data))>>

\* telebot.py lines 42-49 and 51-74 as they answer for the table in force:
\* the meal types _is_meal_type_available accepts, the cells
\* _is_menu_available accepts
Availabilities ==
  {a \in [meal_types : SUBSET MealTypes,
          cells : SUBSET ({"Castelfidardo", "Perrone"} \X MealTypes)] :
     \A cm \in a.cells : cm[2] \in a.meal_types}

\* _get_main_keyboard, lines 77-98: the callback_data of its buttons
MainKeyboard(a) ==
  {Underscored(<<"meal", m>>) : m \in a.meal_types}
  \cup {Underscored(<<"all", "menus">>), Underscored(<<"update", "menus">>), <<"help">>}

\* _get_cafeteria_keyboard(meal_type), lines 100-143
CafeteriaKeyboard(a, meal_type) ==
  {Underscored(<<"menu", meal_type, c>>) : c \in {x \in Cafeterias : <<x, meal_type>> \in a.cells}}
  \cup {Underscored(<<"back", "to", "main">>)}

\* _get_back_keyboard, lines 145-148
BackKeyboard == {Underscored(<<"back", "to", "main">>)}

\* the keyboard of _show_all_menus, lines 267-275
AllMenusKeyboard ==
  {Underscored(<<"all", "pranzo">>), Underscored(<<"all", "cena">>),
   Underscored(<<"back", "to", "main">>)}

NoHandler == [name |-> None, cafeteria |-> << >>, meal_type |-> << >>]

Handler(name) == [NoHandler EXCEPT !.name = name]

\* handle_button, lines 186-218: the handler it awaits, with its arguments
HandleButton(callback_data) ==
  IF StartsWith(callback_data, <<"meal", "_">>)
    THEN [Handler("_show_cafeteria_selection") EXCEPT !.meal_type = From(callback_data, 2)]
  ELSE IF callback_data = Underscored(<<"all", "menus">>) THEN Handler("_show_all_menus")
  ELSE IF callback_data = Underscored(<<"update", "menus">>) THEN Handler("_update_menus")
  ELSE IF callback_data = <<"help">> THEN Handler("_show_help")
  ELSE IF callback_data = Underscored(<<"back", "to", "main">>)
    THEN Handler("_back_to_main_menu")
  ELSE IF StartsWith(callback_data, <<"menu", "_">>)
    THEN LET parts == SplitOnce(From(callback_data, 2))
         IN IF Len(parts) = 2
              THEN [Handler("_show_cafeteria_menu") EXCEPT
                      !.meal_type = parts[1], !.cafeteria = parts[2]]
              ELSE [Handler("_show_cafeteria_menu") EXCEPT
                      !.meal_type = <<"pranzo">>, !.cafeteria = From(callback_data, 2)]
  ELSE NoHandler

\* the keyboard a handler puts on the screen (reply_markup), given the one
\* that was there
KeyboardAfter(h, a, keyboard) ==
  CASE h.name = "_show_cafeteria_selection" ->
         IF Len(h.meal_type) = 1 /\ \E c \in Cafeterias : <<c, h.meal_type[1]>> \in a.cells
           THEN CafeteriaKeyboard(a, h.meal_type[1])
           ELSE BackKeyboard
    [] h.name = "_show_all_menus" -> AllMenusKeyboard
    [] h.name = "_show_cafeteria_menu" -> BackKeyboard
    [] h.name \in {"_update_menus", "_show_help", "_back_to_main_menu"} -> MainKeyboard(a)
    [] OTHER -> keyboard

\* start_command, lines 150-163: the main keyboard
ButtonInit ==
  /\ Constructed
  /\ ~session_file
  /\ args = [demo |-> FALSE, console_only |-> FALSE]
  /\ \E a \in Availabilities :
       probe = [stage |-> "shown", available |-> a, keyboard |-> MainKeyboard(a),
                pressed |-> << >>, handler |-> NoHandler]

\* the user presses a button of the keyboard on the screen
PressButton ==
  /\ probe.stage = "shown"
  /\ \E b \in probe.keyboard :
       probe' = [probe EXCEPT !.stage = "pressed", !.pressed = b, !.handler = NoHandler]
  /\ ProgramUnchanged

\* handle_button(update, context); _update_menus fetches, and the table in
\* force after it is any
HandleButtonCall ==
  /\ probe.stage = "pressed"
  /\ \E h \in {HandleButton(probe.pressed)} :
     \E a \in IF h.name = "_update_menus" THEN Availabilities ELSE {probe.available} :
       probe' = [probe EXCEPT
                  !.stage = "shown",
                  !.handler = h,
                  !.available = a,
                  !.keyboard = KeyboardAfter(h, a, probe.keyboard)]
  /\ ProgramUnchanged

ButtonNext == PressButton \/ HandleButtonCall

ButtonSpec == ButtonInit /\ [][ButtonNext]_vars

(***************************************************************************)
(* The OCR cache: _extract_text_from_story called on story after story, as  *)
(* time passes.  probe holds InstApi.ocr_cache, the clock time.time() and    *)
(* what the last call did.                                                   *)
(***************************************************************************)
\* line 101
cache_expiry == 3600

\* line 602
cache_capacity == 100

\* the story with id n, posted today
CacheStory(n) == Story(n, "today", <<MensaCastelfidardo, PrimiPiatti, PastaAlPomodoro>>)

NoCache == [k \in {} |-> [time |-> 0, text |-> << >>]]

\* line 602: len(self.ocr_cache) > 100
OverCapacity(entries) == Cardinality(DOMAIN entries) > cache_capacity

\* an age test that still trusts an entry of exactly the expiry age
FreshInclusive(entry, now) == now - entry.time <= cache_expiry

\* lines 567 and 604-605: time.time() - cache_time < self.cache_expiry
Fresh(entry, now) == now - entry.time < cache_expiry

\* an extraction that keeps an empty entry for a story it could not read
ExtractTextFromStoryCachingFailure(cache, story, now, tesseract, fetched) ==
  LET cache_key == story.id
      stored == [k \in DOMAIN cache \cup {cache_key} |->
                   IF k = cache_key
                     THEN [time |-> now, text |-> IF fetched THEN story.text ELSE << >>]
                     ELSE cache[k]]
  IN IF ~tesseract
       THEN [text |-> << >>, cache |-> cache, downloads |-> 0, ocr_runs |-> 0]
     ELSE IF cache_key \in DOMAIN cache /\ Fresh(cache[cache_key], now)
       THEN [text |-> cache[cache_key].text, cache |-> cache, downloads |-> 0,
             ocr_runs |-> 0]
     ELSE [text |-> stored[cache_key].text, cache |-> stored, downloads |-> 1,
           ocr_runs |-> IF fetched THEN 1 ELSE 0]

\* _extract_text_from_story(story) with the cache, at time now; fetched says
\* whether the image download and the OCR run go through:
\* [text, cache, downloads, ocr_runs]
ExtractTextFromStoryWithCache(cache, story, now, tesseract, fetched) ==
  LET cache_key == story.id
  IN IF ~tesseract
       THEN [text |-> << >>, cache |-> cache, downloads |-> 0, ocr_runs |-> 0]
     ELSE IF cache_key \in DOMAIN cache /\ Fresh(cache[cache_key], now)
       THEN [text |-> cache[cache_key].text, cache |-> cache, downloads |-> 0,
             ocr_runs |-> 0]
     ELSE IF ~fetched
       THEN [text |-> << >>, cache |-> cache, downloads |-> 1, ocr_runs |-> 0]
     ELSE LET stored == [k \in DOMAIN cache \cup {cache_key} |->
                           IF k = cache_key THEN [time |-> now, text |-> story.text]
                                            ELSE cache[k]]
              kept == {k \in DOMAIN stored : Fresh(stored[k], now)}
          IN [text |-> story.text,
              cache |-> IF OverCapacity(stored) THEN [k \in kept |-> stored[k]]
                                                ELSE stored,
              downloads |-> 1, ocr_runs |-> 1]

\* the time that passes between two calls
ClockGaps == {1800, 3599, 3600, 5400}

NoCall == [id |-> 0, text |-> << >>, downloads |-> 0, ocr_runs |-> 0]

CacheInit ==
  /\ Constructed
  /\ ~session_file
  /\ args = [demo |-> FALSE, console_only |-> FALSE]
  /\ \E gap \in ClockGaps : \E tesseract \in BOOLEAN :
       probe = [stage |-> "cache", ocr_cache |-> NoCache, now |-> 0, gap |-> gap,
                advances |-> 0, tesseract |-> tesseract, seen |-> 0, call |-> NoCall]

\* time passes
ClockAdvance ==
  /\ probe.stage = "cache"
  /\ probe.advances < MaxClockAdvances
  /\ probe' = [probe EXCEPT !.now = @ + probe.gap, !.advances = @ + 1]
  /\ ProgramUnchanged

\* _extract_text_from_story(story): the next new story, up to `limit` of
\* them, or one of the stories `special` again; only the downloads of the
\* stories `special` may fail
ExtractTextCall(limit, special) ==
  /\ probe.stage = "cache"
  /\ \E id \in ({probe.seen + 1} \cap 1..limit) \cup (special \cap 1..probe.seen) :
     \E fetched \in {TRUE} \cup {id \notin special} :
       LET r == ExtractTextFromStoryWithCache(probe.ocr_cache, CacheStory(id), probe.now,
                                              probe.tesseract, fetched)
       IN probe' = [probe EXCEPT
                      !.ocr_cache = r.cache,
                      !.seen = IF id > @ THEN id ELSE @,
                      !.call = [id |-> id, text |-> r.text, downloads |-> r.downloads,
                                ocr_runs |-> r.ocr_runs]]
  /\ ProgramUnchanged

CacheStep(limit, special) == ClockAdvance \/ ExtractTextCall(limit, special)

\* more stories than the cache is meant to hold, the first one read again
CacheNext == CacheStep(cache_capacity + 1, {1})

CacheSpec == CacheInit /\ [][CacheNext]_vars

\* a few stories, read again and again
ReuseNext == CacheStep(MaxStories, 1..MaxStories)

ReuseSpec == CacheInit /\ [][ReuseNext]_vars

(***************************************************************************)
(* A batch of stories through _extract_menus_from_stories with the OCR      *)
(* cache, the download or the OCR run of some of them failing.              *)
(***************************************************************************)
PerroneToday == Story(13, "today", <<MensaPerroneCenaToday, PrimiPiatti, PastaAlPomodoro>>)

BatchCatalogue == {CastelfidardoToday, CastelfidardoLonger, PerroneToday, TodayNoText}

BatchLists == UNION {[1..n -> BatchCatalogue] : n \in 0..MaxStories}

\* lines 397-428 over the first n of the stories `current`, those at the
\* places `failing` not to be read: [table, cache, calls], calls the
\* result of each _extract_text_from_story with the cache before and after
RECURSIVE ExtractBatch(_, _, _, _, _)
ExtractBatch(current, n, cache, now, failing) ==
  IF n = 0 THEN [table |-> ExtractedInit, cache |-> cache, calls |-> << >>]
  ELSE LET acc == ExtractBatch(current, n - 1, cache, now, failing)
           x == ExtractTextFromStoryWithCache(acc.cache, current[n], now, TRUE,
                                              n \notin failing)
           ocr_text == x.text
           cafeteria == IdentifyCafeteriaFromText(ocr_text, DOMAIN acc.table)
           meal_type == IdentifyMealType(ocr_text)
           menu_text == ProcessMenuText(ocr_text, cafeteria, meal_type)
       IN [table |-> IF Len(ocr_text) = 0 \/ cafeteria = None THEN acc.table
                     ELSE [acc.table EXCEPT ![cafeteria][meal_type] = MergeCell(@, menu_text)],
           cache |-> x.cache,
           calls |-> Append(acc.calls, [text |-> x.text, before |-> acc.cache,
                                        after |-> x.cache, downloads |-> x.downloads,
                                        ocr_runs |-> x.ocr_runs])]

BatchInit ==
  /\ Constructed
  /\ ~session_file
  /\ args = [demo |-> FALSE, console_only |-> FALSE]
  /\ \E stories \in BatchLists : \E failing \in SUBSET (1..Len(stories)) :
       probe = [stage |-> "batch", stories |-> stories, failing |-> failing,
                raised |-> FALSE, extracted |-> ExtractedInit, calls |-> << >>,
                table |-> InitialTable]

\* fetch_menus lines 243-258 on the stories listed: the filter, the
\* extraction, the merge into the table
ExtractBatchCall ==
  /\ probe.stage = "batch"
  /\ \E f \in {FilterCurrentDayStories(probe.stories, TRUE)} :
     \E e \in {ExtractBatch(f.kept, Len(f.kept), NoCache, 0, probe.failing)} :
       probe' = [probe EXCEPT
                  !.stage = "batch_returned",
                  !.raised = f.raised,
                  !.extracted = e.table,
                  !.calls = e.calls,
                  !.table = IF f.raised THEN ErrorTable(DateErrorMsg)
                            ELSE FillMissing(MergeExtracted(InitialTable, e.table))]
  /\ ProgramUnchanged

BatchNext == ExtractBatchCall

BatchSpec == BatchInit /\ [][BatchNext]_vars

\* the four threads of the program, running as the scheduler lets them
Next == Step(CoarseEnvironments, MaxOverlap, MaxCycles)

Spec == Init /\ [][Next]_vars

\* the runs in which no two operations overlap
SerialNext == Step(CoarseEnvironments, 1, MaxCycles)

SerialSpec == Init /\ [][SerialNext]_vars

\* the first two fetch_daily_menus calls of a run, against everything the
\* outside world can answer
FetchNext == Step(Environments, 1, 2)

FetchSpec == Init /\ [][FetchNext]_vars

\* App._run_scheduler / scheduled_menu_fetch, lines 50-66, with the flag
\* missing or not set: the pass of the loop runs no pending job (line 55),
\* and the job would return None (lines 64-66); probe keeps what the pass did
SchedulerSkip ==
  /\ pc["sched"] = "idle"
  /\ ~update_enabled
  /\ probe.stage = "none"
  /\ probe' = [stage |-> "scheduler", ran_pending |-> update_enabled, returned |-> None]
  /\ ProgramUnchanged

\* a run from the constructor on, the scheduler thread awake from the start
SchedulerNext == Step(CoarseEnvironments, MaxOverlap, 2) \/ SchedulerSkip

SchedulerSpec == Init /\ [][SchedulerNext]_vars

\* the start of a run with the threads overlapping: the first two
\* fetch_daily_menus calls
StartupNext == Step(CoarseEnvironments, MaxOverlap, 2)

StartupSpec == Init /\ [][StartupNext]_vars

(***************************************************************************)
(* Properties.                                                              *)
(***************************************************************************)
\* fetch_menus has just returned on thread t and line 76 of app.py has
\* stored its table in App.menus
Returned(t) == pc[t] = "fdm_count"

Cells == Cafeterias \X MealTypes

\* C1: whatever the outcome of fetch_menus, the table it returns holds a
\* non-empty string for each of the 4 cafeterias and both meals.
C1_EveryCellNonEmpty ==
  \A t \in Threads :
    Returned(t) =>
      \A cm \in Cells :
        /\ cm[1] \in DOMAIN menus
        /\ cm[2] \in DOMAIN menus[cm[1]]
        /\ Truthy(menus[cm[1]][cm[2]])

\* C2: the table fetch_menus returns has exactly the 4 canonical cafeterias
\* as keys and each of them maps to exactly pranzo and cena, on every path.
C2_KeysComplete ==
  \A t \in Threads :
    Returned(t) =>
      /\ DOMAIN menus = Cafeterias
      /\ \A c \in Cafeterias : DOMAIN menus[c] = MealTypes

\* a return after stories were read and merged into the table
C2_Witness ==
  \E t \in Threads :
    /\ Returned(t)
    /\ last.path = "extracted"
    /\ \E cm \in Cells : menus[cm[1]][cm[2]].kind = "menu"

AllErrorStrings(menus_) ==
  \A cm \in Cells : menus_[cm[1]][cm[2]].kind = "error"

\* C3 as claimed: whenever a step after login raised during the call, the
\* table fetch_menus returns holds an error string in all 8 cells.
C3_AnyRaiseGivesErrorTable ==
  \A t \in Threads :
    (Returned(t) /\ last.raised # {}) => AllErrorStrings(menus)

\* C3: fetch_menus returns a table on every path.  When the exception leaves
\* its step and reaches the try block of fetch_menus (the date filter), all 8
\* cells are error strings carrying the exception's message; when it is
\* thrown inside the user-id lookup, the story listing or the OCR probe, the
\* step absorbs it and no cell is an error string.
C3_EscapedRaiseGivesErrorTable ==
  \A t \in Threads :
    Returned(t) =>
      /\ DOMAIN menus = Cafeterias
      /\ ("filter" \in last.raised =>
            \A cm \in Cells : menus[cm[1]][cm[2]] = ErrorString(cm[2], DateErrorMsg))
      /\ ("filter" \notin last.raised =>
            \A cm \in Cells : menus[cm[1]][cm[2]].kind # "error")

\* a return after the date filter raised on a story
C3_Witness ==
  \E t \in Threads :
    Returned(t) /\ "filter" \in last.raised /\ AllErrorStrings(menus)

\* C4: after stories were listed and processed with the OCR available, every
\* cell no story was classified to holds the generated placeholder menu of
\* its cafeteria and meal.
C4_UnclassifiedCellsGetPlaceholder ==
  \A t \in Threads :
    (Returned(t) /\ last.path = "extracted") =>
      \A cm \in Cells :
        menus[cm[1]][cm[2]].kind # "menu" =>
          menus[cm[1]][cm[2]] = GeneratePlaceholderMenu(cm[1], cm[2], "")

\* C5: a lookup with a legacy name returns what the lookup with its
\* canonical name returns, through InstApi.get_menu and through App.get_menu.
C5_LegacyLookupSame ==
  \A L \in LegacyNames : \A m \in MealTypes :
    /\ InstApiGetMenu(menus, L, m) = InstApiGetMenu(menus, name_mapping[L], m)
    /\ AppGetMenu(menus, L, m) = AppGetMenu(menus, name_mapping[L], m)

\* C6: a stored table that holds a menu read from a story is never replaced
\* by a table in which fetch_daily_menus counts no valid menu.
C6_FailedCycleKeepsCache ==
  [][(\E cm \in Cells : cm[1] \in DOMAIN menus /\ menus[cm[1]][cm[2]].kind = "menu")
       => MenuCount(menus') > 0]_vars

\* C7: when the third fetch_menus result of a fetch_daily_menus call has no
\* valid menu either, the call ends with every cell set to the placeholder
\* menu of its cafeteria and meal.
C7_ThreeFailuresEndInPlaceholders ==
  [][\A t \in Threads :
       (retry_count[t] < fdm_max_retries /\ retry_count'[t] = fdm_max_retries)
         => menus' = PlaceholderTable("")]_vars

\* C8: at most one thread is inside fetch_daily_menus at any time.
C8_NoOverlappingFetch ==
  Cardinality({t \in Threads : Fetching(t)}) <= 1

\* C9: the thread that runs the bot's handlers is never inside
\* fetch_daily_menus.
C9_NoFetchInBotHandler ==
  ~Fetching("bot")

\* C10: a login call that finds login_attempts at the ceiling of 3 returns
\* False at once: it does not go on to the increment, the backoff sleep, the
\* session load, the credential read or the network login, and
\* login_attempts, logged_in and the session file stay as they are.
C10_CeilingLoginReturnsFalse ==
  [][\A t \in Threads :
       (/\ pc[t] = "login_check"
        /\ pc'[t] # "login_check"
        /\ ~demo_mode
        /\ login_attempts >= max_login_attempts)
         => /\ IF via[t] = None
                 THEN pc'[t] = "run_fetch"
                 ELSE /\ pc'[t] = "fdm_count"
                      /\ menus' = PlaceholderTable(LoginFailedReason)
            /\ UNCHANGED <<login_attempts, logged_in, session_file, effects>>]_vars

\* fetch_menus has come back from a login call made at the ceiling
C10_Witness ==
  \E t \in Threads :
    /\ Returned(t)
    /\ last.path = "login_refused"
    /\ ~demo_mode
    /\ login_attempts = max_login_attempts

\* C11: when login and the user-id lookup succeed and the story listing
\* answers with an empty list, all 8 cells of the returned table are the
\* string "No menu posted today", none a placeholder menu.
C11_EmptyListingGivesNoMenuPosted ==
  \A t \in Threads :
    (Returned(t) /\ last.path = "no_stories" /\ "listing" \notin last.raised) =>
      \A cm \in Cells :
        /\ menus[cm[1]][cm[2]] = NoMenuPosted
        /\ menus[cm[1]][cm[2]].kind # "placeholder"

\* a return after a listing that answered with no stories
C11_Witness ==
  \E t \in Threads :
    /\ Returned(t)
    /\ last = [path |-> "no_stories", raised |-> {}]
    /\ logged_in
    /\ cached_user_id # None
    /\ menus["Perrone"]["cena"] = NoMenuPosted

\* C12: in demo mode fetch_menus returns at once with the placeholder menu
\* without annotation in all 8 cells, without going through login, the
\* user-id lookup, the story listing or the OCR, and leaves login_attempts and
\* logged_in as they are; login called in demo mode returns False without
\* counting an attempt.
C12_DemoFetchTouchesNothing ==
  [][\A t \in Threads :
       /\ (pc[t] = "fm_entry" /\ pc'[t] # "fm_entry" /\ demo_mode) =>
            /\ pc'[t] = "fdm_count"
            /\ \A cm \in Cells :
                 menus'[cm[1]][cm[2]] = GeneratePlaceholderMenu(cm[1], cm[2], "")
            /\ UNCHANGED <<login_attempts, logged_in, cached_user_id, session_file,
                           effects>>
       /\ (pc[t] = "login_check" /\ pc'[t] # "login_check" /\ demo_mode) =>
            /\ pc'[t] \in {"run_fetch", "fdm_count"}
            /\ last'.path \in {last.path, "login_refused"}
            /\ UNCHANGED <<login_attempts, logged_in, session_file, effects>>]_vars

\* App.run has fetched in demo mode and has not counted the result yet, and
\* the console's fetch, begun before the demo flag was set, has had its login
\* call refused because of the flag
C12_Witness ==
  /\ demo_mode
  /\ pc["main"] = "fdm_count"
  /\ pc["console"] = "fdm_count"
  /\ last.path = "login_refused"
  /\ login_attempts = 0
  /\ ~logged_in

\* C13: when fetch_menus is entered while not logged in and its login call
\* returns False, fetch_menus returns at once, without the user-id lookup and
\* the story listing, a table whose 8 cells are the placeholder menu with the
\* annotation "Instagram login failed. Using placeholder menu.".
C13_LoginFailureGivesAnnotatedPlaceholders ==
  [][\A t \in Threads :
       (/\ via[t] # None
        /\ pc[t] \in {"login_check", "login_try"}
        /\ pc'[t] \notin {"login_check", "login_inc", "login_try"}
        /\ ~logged_in')
         => /\ pc'[t] = "fdm_count"
            /\ \A cm \in Cells :
                 menus'[cm[1]][cm[2]] =
                   GeneratePlaceholderMenu(cm[1], cm[2], LoginFailedReason)
            /\ last'.raised = {}
            /\ UNCHANGED cached_user_id]_vars

\* a return after the login attempt of fetch_menus failed
C13_Witness ==
  \E t \in Threads :
    /\ Returned(t)
    /\ last.path = "login_failed"
    /\ ~logged_in
    /\ login_attempts > 0
    /\ cached_user_id = None
    /\ menus["Castelfidardo"]["pranzo"] =
         GeneratePlaceholderMenu("Castelfidardo", "pranzo", LoginFailedReason)

\* the filter has returned for the list probe.stories
Filtered == probe.stage \in {"filtered", "extracted"}

Kept == {probe.filtered.kept[i] : i \in 1..Len(probe.filtered.kept)}

ProbeStories == {probe.stories[i] : i \in 1..Len(probe.stories)}

MenuIndicators == {"menu_accented", "menu", "primo", "pranzo", "cena", "mensa"}

C15_TodayAndUndatedKeptOlderDropped ==
  Filtered =>
    \A story \in ProbeStories :
      /\ story.date \in {"today", "unknown"} => story \in Kept
      /\ story.date = "older" => story \notin Kept

\* without OCR, an unreadable story of today has been kept and an old story
\* whose text carries today's date has been dropped
C15_Witness ==
  /\ Filtered
  /\ ~probe.tesseract
  /\ probe.stories = <<TodayNoText, PerroneOlder>>
  /\ probe.filtered.kept = <<TodayNoText>>

\* the formatted text of the i-th retained story, and the retained stories
\* the second loop classifies to a cafeteria and meal
KeptText(i) == ExtractTextFromStory(probe.filtered.kept[i], probe.tesseract)

Formatted(i) ==
  ProcessMenuText(KeptText(i), IdentifyCafeteriaFromText(KeptText(i), Cafeterias),
                  IdentifyMealType(KeptText(i)))

ClassifiedTo(c, m) ==
  {i \in 1..Len(probe.filtered.kept) :
     /\ Len(KeptText(i)) > 0
     /\ IdentifyCafeteriaFromText(KeptText(i), Cafeterias) = c
     /\ IdentifyMealType(KeptText(i)) = m}

Extracted == probe.stage = "extracted" /\ ~probe.extracted.raised

\* C16: after _extract_menus_from_stories, a cell some story was classified to
\* holds a formatted text of maximal length among the stories classified to
\* it, the earliest such story's on a tie.
C16_LongestTextEarliestOnTie ==
  Extracted =>
    \A c \in Cafeterias, m \in MealTypes :
      ClassifiedTo(c, m) # {} =>
        \E i \in ClassifiedTo(c, m) :
          /\ probe.extracted.table[c][m] = Formatted(i)
          /\ \A j \in ClassifiedTo(c, m) :
                /\ StrLen(Formatted(j)) <= StrLen(Formatted(i))
                /\ j < i => StrLen(Formatted(j)) < StrLen(Formatted(i))

\* two different menus of Castelfidardo of the same length were read, and
\* the cell holds the first one
C16_Witness ==
  /\ Extracted
  /\ probe.tesseract
  /\ probe.stories = <<CastelfidardoOther, CastelfidardoToday>>
  /\ ClassifiedTo("Castelfidardo", "pranzo") = {1, 2}
  /\ Formatted(1) # Formatted(2)
  /\ StrLen(Formatted(1)) = StrLen(Formatted(2))
  /\ probe.extracted.table["Castelfidardo"]["pranzo"] = Formatted(1)

\* thread t is inside a fetch_menus call that fetch_daily_menus made
InsideFetchMenus(t) ==
  /\ via[t] # None
  /\ pc[t] \in {"fm_entry", "login_check", "login_inc", "login_try", "fm_body"}

\* a table with the 4 cafeterias and both meals of each
CompleteTable(menus_) ==
  /\ DOMAIN menus_ = Cafeterias
  /\ \A c \in Cafeterias : DOMAIN menus_[c] = MealTypes

NoAlias(text) == ~\E c \in Cafeterias : TextHasAny(text, cafeteria_keywords[c])

\* menu_indicators of _identify_cafeteria_from_text
GenericMenuIndicators ==
  {"primi piatti", "secondi piatti", "contorni", "menu_accented", "pranzo", "cena"}

\* C18: in a fetch cycle, a text that names no cafeteria but carries a generic
\* menu indicator is given to a cafeteria, so after the extraction some cell
\* of its meal holds a text at least as long as its formatted menu.
C18_MenuWithoutAliasIsAssigned ==
  (Extracted /\ probe.tesseract) =>
    \A i \in 1..Len(probe.filtered.kept) :
      (/\ Len(KeptText(i)) > 0
       /\ NoAlias(KeptText(i))
       /\ \E k \in GenericMenuIndicators : TextHas(KeptText(i), k)) =>
        \E c \in Cafeterias :
          LET cell == probe.extracted.table[c][IdentifyMealType(KeptText(i))]
          IN Truthy(cell) /\ StrLen(cell) >= StrLen(Formatted(i))

\* C19: whenever fetch_menus has returned, public_request is the function it
\* was before the call: no patched_public_request wrapper is left on it.
C19_PublicRequestRestored ==
  \A t \in Threads : Returned(t) => public_request = 0

\* C20: login_attempts never exceeds the ceiling of 3, and once it has
\* reached 3 with logged_in False no login is under way any more, so
\* logged_in stays False.
C20_LoginAttemptsWithinCeiling ==
  /\ login_attempts <= max_login_attempts
  /\ (login_attempts = max_login_attempts /\ ~logged_in) =>
       \A t \in Threads : pc[t] # "login_inc"

\* C21: when the user-id lookups of a call threw and no attempt gave an id,
\* _get_user_id_with_retry still returns an id (the cached one, else the
\* hardcoded one of edisu_piemonte), so fetch_menus does not abort for want
\* of a user id.
C21_ExhaustedLookupFallsBack ==
  \A t \in Threads :
    (Returned(t) /\ "user_id" \in last.raised) => last.path # "no_user_id"

\* every listing attempt of the call failed
EveryListingFailed == \A i \in 1..max_retries : probe.outcomes[i] # "ok"

\* C22: _get_stories_with_retry calls the listing at most 3 times, and when
\* all 3 attempts failed, whatever the failure, it has tried the direct call
\* exactly once when it returns.
C22_ExhaustedListingTriesDirectCall ==
  probe.stage = "listing_returned" =>
    /\ probe.returned.calls <= max_retries
    /\ EveryListingFailed => probe.returned.direct_calls = 1

\* C23: when the story listing threw during the call and gave no stories,
\* the table fetch_menus returns is not the one of an empty listing: it does
\* not hold 'No menu posted today' in every cell.
C23_FailedListingNotReportedAsEmpty ==
  \A t \in Threads :
    (Returned(t) /\ "listing" \in last.raised /\ last.path = "no_stories") =>
      menus # NoMenuTable

\* C24: after any _extract_text_from_story call the cache holds at most 100
\* entries.
C24_CacheWithinCapacity ==
  probe.stage = "cache" => Cardinality(DOMAIN probe.ocr_cache) <= cache_capacity

\* the step is a call of _extract_text_from_story on the story with this id
ExtractionOf(id) ==
  /\ probe.stage = "cache"
  /\ probe'.now = probe.now
  /\ probe'.call.id = id

\* the age of the cache entry of the story, before the call
EntryAge(id) == probe.now - probe.ocr_cache[id].time

\* C25 as claimed: a call on a story whose entry is younger than 3600 s
\* returns the cached text with no download and no OCR run; a call on a
\* story whose entry is 3600 s old or older runs the OCR again and replaces
\* the entry with the new time and text.
C25_StaleEntryAlwaysReplaced ==
  [][\A id \in DOMAIN probe.ocr_cache :
       ExtractionOf(id) =>
         IF EntryAge(id) < cache_expiry
           THEN /\ probe'.call.text = probe.ocr_cache[id].text
                /\ probe'.call.downloads = 0
                /\ probe'.call.ocr_runs = 0
           ELSE /\ probe'.call.ocr_runs = 1
                /\ probe'.ocr_cache[id] = [time |-> probe.now, text |-> probe'.call.text]]_vars

\* C25: a call on a story whose entry is younger than 3600 s returns the
\* cached text with no download and no OCR run and leaves the cache as it
\* is; a call on a story whose entry is 3600 s old or older never returns
\* the entry: it downloads the image again, and when the download and the
\* OCR go through it returns the new text and replaces the entry with the
\* new time and text, while a failed download returns the empty text and
\* leaves the old entry in the cache.
C25_FreshEntryReusedStaleEntryRecomputed ==
  [][\A id \in DOMAIN probe.ocr_cache :
       ExtractionOf(id) =>
         IF EntryAge(id) < cache_expiry
           THEN /\ probe'.call.text = probe.ocr_cache[id].text
                /\ probe'.call.downloads = 0
                /\ probe'.call.ocr_runs = 0
                /\ probe'.ocr_cache = probe.ocr_cache
           ELSE /\ probe'.call.downloads = 1
                /\ IF probe'.call.ocr_runs = 1
                     THEN /\ probe'.call.text = CacheStory(id).text
                          /\ probe'.ocr_cache[id] =
                               [time |-> probe.now, text |-> CacheStory(id).text]
                     ELSE /\ probe'.call.text = << >>
                          /\ probe'.ocr_cache = probe.ocr_cache]_vars

\* 3599 s after its first extraction the first story has been read again,
\* from the cache
C25_Witness ==
  /\ probe.stage = "cache"
  /\ probe.now = 3599
  /\ probe.call.id = 1
  /\ probe.call.ocr_runs = 0
  /\ probe.call.downloads = 0
  /\ Len(probe.call.text) > 0
  /\ 1 \in DOMAIN probe.ocr_cache
  /\ probe.ocr_cache[1].time = 0

\* C26: a story dated yesterday is retained only if its OCR text contains a
\* menu indicator and a rendering of today's date or a date token whose day
\* and month are today's; with empty OCR text, without a menu indicator or
\* without such a date it is dropped.
C26_YesterdayKeptOnlyWithMenuAndTodayDate ==
  Filtered =>
    \A story \in ProbeStories :
      (story.date = "yesterday" /\ story \in Kept) =>
        /\ Len(ExtractTextFromStory(story, probe.tesseract)) > 0
        /\ \E k \in MenuIndicators : TextHas(story.text, k)
        /\ TextHas(story.text, TodayFormat) \/ TextHas(story.text, TodayToken)

\* the line carries an alias of the cafeteria
AliasIn(line, c) == \E j \in 1..Len(cafeteria_keywords[c]) : cafeteria_keywords[c][j] \in line.kw

\* the header lines of the text given: those of the first 3 lines that carry
\* 'mensa' and an alias of some cafeteria
HeaderLines ==
  {i \in 1..Len(probe.text) :
     i <= 3 /\ "mensa" \in probe.text[i].kw /\ \E c \in Cafeterias : AliasIn(probe.text[i], c)}

\* the cafeterias with an alias somewhere in the text given
NamedInText == {c \in Cafeterias : \E i \in 1..Len(probe.text) : AliasIn(probe.text[i], c)}

C28_MealTypePranzoFirst ==
  probe.stage = "meal_returned" =>
    LET Has(m) == \E i \in 1..Len(probe.text) : \E k \in meal_keywords[m] :
                    k \in probe.text[i].kw
    IN /\ probe.returned \in {"pranzo", "cena"}
       /\ probe.returned = IF Has("pranzo") THEN "pranzo"
                           ELSE IF Has("cena") THEN "cena" ELSE "pranzo"

\* a text with a cena line and then a line naming pranzo and cena gave pranzo
C28_Witness ==
  /\ probe.stage = "meal_returned"
  /\ probe.text = <<CenaLine, PranzoECena>>
  /\ probe.returned = "pranzo"

\* the line carries one of the boilerplate words / one of the header
\* keywords of some section
IsBoilerplate(line) == \E k \in Boilerplate : k \in line.kw

HasHeaderKeyword(line) == \E x \in DOMAIN section_headers : \E k \in section_headers[x] : k \in line.kw

\* line n of the text given came out as a dish of section x
EmittedAsDish(n, x) ==
  \E i \in 1..Len(probe.returned.lines) :
    /\ probe.returned.lines[i].t = "dish"
    /\ probe.returned.lines[i].src = n
    /\ probe.returned.lines[i].section = x

\* the last line before line n that is a header, counting the lines with
\* these properties only; 0 when there is none
LastHeaderBefore(n, skip_boilerplate) ==
  LET hs == {m \in 1..(n - 1) :
               /\ HasHeaderKeyword(probe.text[m])
               /\ skip_boilerplate => ~IsBoilerplate(probe.text[m])}
  IN IF hs = {} THEN 0 ELSE CHOOSE m \in hs : \A o \in hs : o <= m

\* what the formatter makes of the lines of the text when the section in
\* force at line n is the one of header line h
DishesFollowHeaders(skip_boilerplate) ==
  \A n \in 1..Len(probe.text) : \A x \in DOMAIN section_headers :
    LET line == probe.text[n]
        h == LastHeaderBefore(n, skip_boilerplate)
    IN EmittedAsDish(n, x) <=>
         /\ ~IsBoilerplate(line)
         /\ ~HasHeaderKeyword(line)
         /\ h # 0
         /\ HeaderOf(probe.text[h]) = x
         /\ x \in {"primi", "secondi", "contorni"}
         /\ line.len > 3

\* C29 as claimed: every line with a section header keyword sets the current
\* section, and a line that is neither boilerplate nor a header comes out as
\* a dish of the current section exactly when that section is primi, secondi
\* or contorni and the line is longer than 3 characters.
C29_EveryHeaderLineSetsSection ==
  probe.stage = "menu_returned" => DishesFollowHeaders(FALSE)

\* C29: a line without boilerplate words that has a section header keyword
\* sets the current section, a line with a boilerplate word never does; no
\* header line comes out as a dish, and a line that is neither boilerplate
\* nor a header comes out as a dish of the current section exactly when that
\* section is primi, secondi or contorni and the line is longer than 3
\* characters; the lines before the first header are dropped.
C29_HeaderLineWithoutBoilerplateSetsSection ==
  probe.stage = "menu_returned" => DishesFollowHeaders(TRUE)

\* "Riso" after the header of the secondi came out under secondi, "Uva"
\* after it did not come out, and neither did the line before the header
C29_Witness ==
  /\ probe.stage = "menu_returned"
  /\ probe.text = <<PastaAlPomodoro, SecondiPiatti, Riso, Uva>>
  /\ EmittedAsDish(3, "secondi")
  /\ \A x \in DOMAIN section_headers : ~EmittedAsDish(1, x) /\ ~EmittedAsDish(4, x)

\* the formatted menu ends with the dessert header and the two fixed
\* entries, and nothing else of it belongs to the dessert section
FixedDessertBlock ==
  LET ls == probe.returned.lines
      n == Len(ls)
  IN /\ n >= 3
     /\ ls[n - 2] = HeaderLine("dessert")
     /\ ls[n - 1] = FruttaLine
     /\ ls[n] = DessertLine
     /\ \A i \in 1..(n - 3) : ls[i].section # "dessert"
     /\ \A i \in 1..n : ls[i].section = "dessert" => ls[i].src = 0

\* no line that follows a dessert header comes out in any section before the
\* next header, counting as headers the lines with these properties only
NothingAfterDessertHeader(skip_boilerplate) ==
  \A n \in 1..Len(probe.text) :
    LET h == LastHeaderBefore(n, skip_boilerplate)
    IN (h # 0 /\ HeaderOf(probe.text[h]) = "dessert") =>
         \A x \in DOMAIN section_headers : ~EmittedAsDish(n, x)

\* C30 as claimed: every formatted menu ends with the dessert block of the
\* two fixed entries, no source line comes out under the dessert header, and
\* the lines after any line with a dessert header keyword come out in no
\* section until the next header.
C30_NothingAfterAnyDessertHeader ==
  probe.stage = "menu_returned" =>
    FixedDessertBlock /\ NothingAfterDessertHeader(FALSE)

\* C30: every formatted menu ends with the dessert block of the two fixed
\* entries, no source line comes out under the dessert header, and the lines
\* after a dessert header that carries no boilerplate word come out in no
\* section until the next header.
C30_FixedDessertBlockNothingAfterDessertHeader ==
  probe.stage = "menu_returned" =>
    FixedDessertBlock /\ NothingAfterDessertHeader(TRUE)

\* the pasta before the dessert header came out under primi, the risotto
\* after it came out nowhere
C30_Witness ==
  /\ probe.stage = "menu_returned"
  /\ probe.text = <<PrimiPiatti, PastaAlPomodoro, DessertHeader, RisottoAiFunghi>>
  /\ EmittedAsDish(2, "primi")
  /\ \A x \in DOMAIN section_headers : ~EmittedAsDish(4, x)
  /\ Len(probe.returned.lines) = 8

\* line n of the text given is a dish of section x: neither boilerplate nor
\* a header, longer than 3 characters, the last header before it one of x
SourceDish(n, x) ==
  LET line == probe.text[n]
      h == LastHeaderBefore(n, TRUE)
  IN /\ ~IsBoilerplate(line)
     /\ ~HasHeaderKeyword(line)
     /\ line.len > 3
     /\ h # 0
     /\ HeaderOf(probe.text[h]) = x

\* the place of a section in the fixed order
SectionRank(x) ==
  CASE x = "primi" -> 1 [] x = "secondi" -> 2 [] x = "contorni" -> 3
    [] x = "dessert" -> 4

\* C31: in the formatted menu the section headers come in the order primi,
\* secondi, contorni, dessert, each at most once, whatever the order of the
\* headers in the text; the header of primi, secondi or contorni is there
\* exactly when the text has a dish of that section, and all the dishes of a
\* section stand right after its one header, in the order of the text.
C31_SectionsInFixedOrder ==
  probe.stage = "menu_returned" =>
    LET ls == probe.returned.lines
        n == Len(ls)
    IN /\ \A i, j \in 1..n :
            (i < j /\ ls[i].t = "header" /\ ls[j].t = "header") =>
              SectionRank(ls[i].section) < SectionRank(ls[j].section)
       /\ \A x \in {"primi", "secondi", "contorni"} :
            (\E i \in 1..n : ls[i] = HeaderLine(x)) <=>
              (\E m \in 1..Len(probe.text) : SourceDish(m, x))
       /\ \A x \in {"primi", "secondi", "contorni"} :
            \A m \in 1..Len(probe.text) : SourceDish(m, x) => EmittedAsDish(m, x)
       /\ \A i \in 1..n :
            ls[i].t = "dish" =>
              \E h \in 1..(i - 1) :
                /\ ls[h] = HeaderLine(ls[i].section)
                /\ \A k \in (h + 1)..i :
                     ls[k].t = "dish" /\ ls[k].section = ls[i].section
       /\ \A i, j \in 1..n :
            (i < j /\ ls[i].t = "dish" /\ ls[j].t = "dish"
               /\ ls[i].section = ls[j].section) => ls[i].src < ls[j].src

\* the secondi came first in the text and second in the menu
C31_Witness ==
  /\ probe.stage = "menu_returned"
  /\ probe.text = <<SecondiPiatti, Riso, PrimiPiatti, PastaAlPomodoro>>
  /\ probe.returned.lines[3] = HeaderLine("primi")
  /\ probe.returned.lines[6] = HeaderLine("secondi")
  /\ EmittedAsDish(2, "secondi")
  /\ EmittedAsDish(4, "primi")

\* fetch_menus went through _extract_menus_from_stories
RanExtraction == probe.returned.path \in {"extracted", "exception"}

\* every one of the 8 cells is the placeholder menu of its cafeteria and meal
EveryCellPlaceholder ==
  \A cm \in Cells :
    /\ probe.returned.table[cm[1]][cm[2]].kind = "placeholder"
    /\ probe.returned.table[cm[1]][cm[2]] = GeneratePlaceholderMenu(cm[1], cm[2], "")

\* C32 as claimed: with the user id resolved and tesseract unavailable,
\* fetch_menus runs no extraction and returns a placeholder menu in every
\* one of the 8 cells, whatever the story listing returned.
C32_NoOcrAlwaysPlaceholders ==
  (probe.stage = "fetched" /\ ~probe.env.tesseract) =>
    ~RanExtraction /\ EveryCellPlaceholder

\* C32: with the user id resolved and tesseract unavailable, fetch_menus
\* runs no extraction; when the listing returned at least one story every
\* one of the 8 cells is a placeholder menu, and when it returned none every
\* cell is "No menu posted today".
C32_NoOcrPlaceholdersWhenStoriesListed ==
  (probe.stage = "fetched" /\ ~probe.env.tesseract) =>
    /\ ~RanExtraction
    /\ Len(probe.returned.stories) > 0 => EveryCellPlaceholder
    /\ Len(probe.returned.stories) = 0 =>
         \A cm \in Cells : probe.returned.table[cm[1]][cm[2]] = NoMenuPosted

\* two stories listed without tesseract: placeholders in every cell
C32_Witness ==
  /\ probe.stage = "fetched"
  /\ ~probe.env.tesseract
  /\ probe.returned.stories = <<CastelfidardoToday, PerroneYesterday>>
  /\ probe.returned.path = "no_ocr"
  /\ EveryCellPlaceholder

\* the login call made the call `name`; it made it at place i of its trace
Made(name) == \E i \in 1..Len(probe.returned.trace) : probe.returned.trace[i].call = name

PlaceOf(name) ==
  CHOOSE i \in 1..Len(probe.returned.trace) : probe.returned.trace[i].call = name

\* C33: when the saved session is there, is loaded and yields a user id,
\* login sets logged_in and returns True without reading the credentials and
\* without a network login; when the reuse fails (no file, a falsy user id
\* or an exception) a login past the demo and ceiling checks reads the
\* credentials, returns False with logged_in as it was when they are not to
\* be had, and dumps the session only after a network login that succeeded.
C33_SessionReuseBeforeCredentials ==
  probe.stage = "login_returned" =>
    LET r == probe.returned
        started == ~probe.self.demo_mode /\ probe.self.login_attempts < 3
        reused == probe.self.session_file /\ probe.world.load = "user_id"
    IN /\ (Made("session_load") /\ probe.world.load = "user_id") =>
            /\ r.result
            /\ r.self.logged_in
            /\ ~Made("credential_read")
            /\ ~Made("network_login")
            /\ ~Made("session_dump")
       /\ (started /\ ~reused) =>
            /\ Made("credential_read")
            /\ probe.world.credentials = "raises" =>
                 /\ ~r.result
                 /\ r.self.logged_in = probe.self.logged_in
                 /\ ~Made("network_login")
       /\ Made("session_dump") =>
            /\ Made("network_login")
            /\ PlaceOf("network_login") < PlaceOf("session_dump")
            /\ probe.world.network = "ok"
            /\ r.result
       /\ (r.self.session_file /\ ~probe.self.session_file) => Made("session_dump")
       /\ started <=> (r.self.login_attempts = probe.self.login_attempts + 1)
       /\ (started /\ probe.self.session_file) => Made("session_load")

\* a second attempt that reused the saved session: logged in, no credentials
\* read, no network login
C33_Witness ==
  /\ probe.stage = "login_returned"
  /\ probe.self = [demo_mode |-> FALSE, login_attempts |-> 1, logged_in |-> FALSE,
                   session_file |-> TRUE]
  /\ probe.world.load = "user_id"
  /\ probe.returned.result
  /\ probe.returned.self.logged_in
  /\ Made("session_load")
  /\ ~Made("credential_read")

\* the sleeps of the login call, in order
SleepsTaken ==
  LET tr == probe.returned.trace
      RECURSIVE Upto(_)
      Upto(i) == IF i = 0 THEN << >>
                 ELSE IF tr[i].call = "sleep" THEN Append(Upto(i - 1), tr[i].secs)
                 ELSE Upto(i - 1)
  IN Upto(Len(tr))

\* C38: login takes no sleep on attempt 1 nor when it refuses to start;
\* on attempt 2 it sleeps 5 s and on attempt 3 it sleeps 10 s, once, before
\* anything else it does, the load of the saved session included, so that a
\* login that reuses the session has slept too.
C38_BackoffOnlyOnRetryBeforeReuse ==
  probe.stage = "login_returned" =>
    LET r == probe.returned
        started == ~probe.self.demo_mode /\ probe.self.login_attempts < 3
        n == probe.self.login_attempts + 1
    IN /\ (~started \/ n = 1) => SleepsTaken = << >>
       /\ (started /\ n = 2) => SleepsTaken = <<5>>
       /\ (started /\ n = 3) => SleepsTaken = <<10>>
       /\ SleepsTaken # << >> => r.trace[1].call = "sleep"
       /\ (started /\ n > 1 /\ probe.self.session_file /\ probe.world.load = "user_id") =>
            /\ r.result
            /\ r.trace = <<Sleep(5 * 2 ^ (n - 2)), Call("session_load")>>

\* the third attempt slept 10 s and then reused the saved session
C38_Witness ==
  /\ probe.stage = "login_returned"
  /\ probe.self.login_attempts = 2
  /\ probe.returned.self.login_attempts = 3
  /\ probe.returned.result
  /\ probe.returned.trace = <<Sleep(10), Call("session_load")>>

\* what one fetch cycle has done stays within the ceilings
WithinCeilings ==
  probe.stage \in {"cycle", "cycle_returned"} =>
    /\ probe.fetches <= 3
    /\ probe.sleeps <= 2
    /\ probe.sleeps <= probe.fetches
    /\ probe.fetch.logins <= 1
    /\ probe.fetch.user_id_calls <= 3
    /\ probe.fetch.listing_calls <= 3
    /\ probe.fetch.direct_calls <= 1

\* C34: every fetch cycle comes to its return, and on the way one
\* fetch_daily_menus call makes at most 3 fetch_menus calls and takes at
\* most 2 sleeps between them, and each fetch_menus call makes at most 1
\* login call, 3 user-id lookups, 3 story listings and 1 direct call.
C34_CycleEndsWithinCeilings ==
  [](WithinCeilings) /\ <>(probe.stage = "cycle_returned")

\* a cycle that returned after three fetch_menus calls and two sleeps, the
\* last call with three lookups of the user id
C34_Witness ==
  /\ probe.stage = "cycle_returned"
  /\ probe.fetches = 3
  /\ probe.sleeps = 2
  /\ probe.retry_count = 3
  /\ probe.fetch.user_id_calls = 3

\* handle_button has just answered a button of a keyboard
Handled == probe.stage = "shown" /\ probe.pressed # << >>

\* C35: every button a keyboard of Telebot shows is dispatched by
\* handle_button to a handler, and a button menu_<meal>_<cafeteria> is taken
\* apart into that meal type and that cafeteria.
C35_EveryButtonHasHandler ==
  Handled =>
    /\ probe.handler.name # None
    /\ \A c \in Cafeterias : \A m \in MealTypes :
         probe.pressed = <<"menu", "_", m, "_", c>> =>
           /\ probe.handler.name = "_show_cafeteria_menu"
           /\ probe.handler.meal_type = <<m>>
           /\ probe.handler.cafeteria = <<c>>

\* C36: while update_enabled is missing or not set the scheduler thread
\* starts no fetch: a pass of its loop runs no pending job, returns None and
\* leaves the menu table, the fetch count and every thread where they were;
\* the scheduler thread leaves its loop for fetch_daily_menus only with the
\* flag set.
C36_ScheduledFetchOnlyWhileEnabled ==
  [][/\ ~update_enabled =>
          /\ pc'["sched"] = "idle"
          /\ via'["sched"] = None
          /\ probe' # probe =>
               /\ probe'.stage = "scheduler"
               /\ ~probe'.ran_pending
               /\ probe'.returned = None
               /\ menus' = menus
               /\ cycles' = cycles
               /\ pc' = pc
     /\ (via["sched"] = None /\ via'["sched"] # None) =>
          /\ update_enabled
          /\ via'["sched"] = "scheduled"]_vars

\* the scheduler went round before App.run made the flag: nothing fetched
C36_Witness ==
  /\ probe.stage = "scheduler"
  /\ ~probe.ran_pending
  /\ ~update_enabled
  /\ menus = EmptyTable
  /\ cycles = 0
  /\ pc["sched"] = "idle"

\* the extraction of the story at place i of the batch failed: its download
\* or OCR run does not go through, and no earlier story of the batch with
\* the same id has left its text in the cache
FailedAt(i) ==
  /\ i \in probe.failing
  /\ ~\E j \in 1..(i - 1) :
        probe.stories[j].id = probe.stories[i].id /\ j \notin probe.failing

\* the stories of the batch whose extraction did not fail, in order
RECURSIVE ReadableUpTo(_)
ReadableUpTo(n) ==
  IF n = 0 THEN << >>
  ELSE IF FailedAt(n) THEN ReadableUpTo(n - 1)
  ELSE Append(ReadableUpTo(n - 1), probe.stories[n])

\* C37: an extraction that fails gives the empty string and leaves the
\* cache as it was; the table of the batch is the one the other stories
\* give by themselves, and the batch ends without an exception, the table
\* fetch_menus makes of it not the one of error strings.
C37_FailedStoryOnlyLosesItself ==
  probe.stage = "batch_returned" =>
    LET readable == ReadableUpTo(Len(probe.stories))
    IN /\ Len(probe.calls) = Len(probe.stories)
       /\ \A i \in 1..Len(probe.stories) :
            FailedAt(i) =>
              /\ probe.calls[i].text = << >>
              /\ probe.calls[i].after = probe.calls[i].before
       /\ probe.extracted = ExtractUpTo(readable, Len(readable), TRUE)
       /\ ~probe.raised
       /\ \A cm \in Cells : probe.table[cm[1]][cm[2]].kind # "error"

\* the first story could not be read, the second one gave Perrone its cena
C37_Witness ==
  /\ probe.stage = "batch_returned"
  /\ probe.stories = <<CastelfidardoLonger, PerroneToday>>
  /\ probe.failing = {1}
  /\ probe.calls[1].text = << >>
  /\ probe.calls[1].downloads = 1
  /\ probe.calls[2].ocr_runs = 1
  /\ probe.extracted["Perrone"]["cena"].kind = "menu"
  /\ probe.extracted["Castelfidardo"]["pranzo"] = EmptyString

====
